---- MODULE Spec2Model ----
(***************************************************************************)
(* Verification model of the document sanitizers of watermarkremover:      *)
(* processors/word_processor.py, excel_processor.py, pptx_processor.py and *)
(* pdf_processor.py.                                                       *)
(*                                                                         *)
(* Text (an XML part, a PDF content stream) is a sequence of atoms.  An    *)
(* atom is one character of the text, except that an element name, a       *)
(* watermark marker or a keyword, which the source's patterns spell out as *)
(* a literal, is abbreviated to a single atom.  The patterns are evaluated *)
(* over the atoms the way Python's re module evaluates them over the       *)
(* characters: leftmost match, greedy [^>]*, lazy .*?, non-overlapping     *)
(* left-to-right substitution.                                             *)
(***************************************************************************)
EXTENDS Integers, Sequences, FiniteSets, TLC

VARIABLES
    xmlKind,     \* XML patch engine: which targeted part the content belongs to
    xmlChunks,   \* the input content, as the chunks it was composed of
    xmlText,     \* the content of the part in the workspace
    xmlRuns,     \* one record per apply run over the part
    pdfKeywords, \* PDF: the configured keyword list
    pdfFs,       \* PDF: the files, by path
    pdfProc,     \* PDF: the PDFProcessor instance (preview, stats)
    pdfRuns,     \* PDF: one record per process() call
    zipInput,    \* OOXML: the path of the input document
    zipFs,       \* OOXML: the files of the document's directory, by path
    zipWritable, \* OOXML: the directory lets the program create files
    zipProc,     \* OOXML: the processor instance (class, preview, mode, stats)
    zipRuns,     \* OOXML: one record per process() call
    blkText,     \* PDF text block: the block handed to filter_watermarks
    blkRuns,     \* PDF text block: one record per classification of it
    sldProc,     \* slide: the PPTXProcessor instance that visits it
    sldPart,     \* slide: the slide file in the workspace
    sldRuns,     \* slide: one record per visit of the slide
    batFiles,    \* batch: file_list and what each file holds
    batResults,  \* batch: the results list of process_batch
    batStatus,   \* batch: where process_batch is
    racCfg,      \* concurrent runs: the class and the preview flag of both
    racRuns,     \* concurrent runs: input, position and counters of each
    racFs,       \* concurrent runs: the workspaces of the shared directory
    racLog,      \* concurrent runs: whose files each run deleted or packed
    docPages,    \* PDF pages: the content streams of each page
    docRuns,     \* PDF pages: one record per pass over the pages
    guiKind,     \* GUI: the shell, DocumentUnlockerGUI or WatermarkRemoverGUI
    guiFiles,    \* GUI: self.file_list
    guiTree,     \* GUI: the item ids of the rows of the file table
    guiProcessing, \* GUI: self.processing
    guiPolling,  \* GUI: check_queue is scheduled with root.after
    guiQueue,    \* GUI: the message queue
    guiWorkers,  \* GUI: the worker threads started so far
    guiUsed      \* GUI: the user actions and item ids used so far

xmlVars == <<xmlKind, xmlChunks, xmlText, xmlRuns>>

pdfVars == <<pdfKeywords, pdfFs, pdfProc, pdfRuns>>

zipVars == <<zipInput, zipFs, zipWritable, zipProc, zipRuns>>

blkVars == <<blkText, blkRuns>>

sldVars == <<sldProc, sldPart, sldRuns>>

batVars == <<batFiles, batResults, batStatus>>

racVars == <<racCfg, racRuns, racFs, racLog>>

docVars == <<docPages, docRuns>>

guiVars == <<guiKind, guiFiles, guiTree, guiProcessing, guiPolling, guiQueue, guiWorkers, guiUsed>>

vars == <<xmlKind, xmlChunks, xmlText, xmlRuns, pdfKeywords, pdfFs, pdfProc, pdfRuns,
          zipInput, zipFs, zipWritable, zipProc, zipRuns, blkText, blkRuns,
          sldProc, sldPart, sldRuns, batFiles, batResults, batStatus,
          racCfg, racRuns, racFs, racLog,
          docPages, docRuns,
          guiKind, guiFiles, guiTree, guiProcessing, guiPolling, guiQueue, guiWorkers, guiUsed>>

\* an action of one part of the model leaves the other parts alone
Frame(part) ==
    /\ IF part = "xml" THEN TRUE ELSE UNCHANGED xmlVars
    /\ IF part = "pdf" THEN TRUE ELSE UNCHANGED pdfVars
    /\ IF part = "zip" THEN TRUE ELSE UNCHANGED zipVars
    /\ IF part = "blk" THEN TRUE ELSE UNCHANGED blkVars
    /\ IF part = "sld" THEN TRUE ELSE UNCHANGED sldVars
    /\ IF part = "bat" THEN TRUE ELSE UNCHANGED batVars
    /\ IF part = "rac" THEN TRUE ELSE UNCHANGED racVars
    /\ IF part = "doc" THEN TRUE ELSE UNCHANGED docVars
    /\ IF part = "gui" THEN TRUE ELSE UNCHANGED guiVars

(***************************************************************************)
(* Bounds.                                                                 *)
(***************************************************************************)
\* chunks an XML part's content is composed of
MaxChunks == 4
\* apply runs over the same part, process() calls in one behaviour
MaxRuns == 2
\* chunks a PDF content stream is composed of
MaxStreamChunks == 4

(***************************************************************************)
(* Generic sequence helpers.                                               *)
(***************************************************************************)
RECURSIVE Flatten(_)
Flatten(ss) ==
    IF ss = <<>> THEN <<>> ELSE Head(ss) \o Flatten(Tail(ss))

\* F(v), with v evaluated once
With(v, F(_)) == CHOOSE y \in { F(x) : x \in {v} } : TRUE

RECURSIVE SeqsUpTo(_, _)
SeqsUpTo(S, n) ==
    IF n = 0 THEN {<<>>}
    ELSE LET shorter == SeqsUpTo(S, n - 1)
         IN  shorter \cup { Append(s, x) : s \in { t \in shorter : Len(t) = n - 1 }, x \in S }

(***************************************************************************)
(* Regular-expression matching as Python's re performs it.                 *)
(***************************************************************************)
\* the literal lit occurs in s at position i
StartsAt(s, i, lit) ==
    /\ i >= 1
    /\ i + Len(lit) - 1 <= Len(s)
    /\ \A k \in 1..Len(lit) : s[i + k - 1] = lit[k]

\* position of the first occurrence of lit in s at or after i (0: none)
FindFrom(s, i, lit) ==
    LET hits == { j \in i..Len(s) : StartsAt(s, j, lit) }
    IN  IF hits = {} THEN 0 ELSE CHOOSE j \in hits : \A k \in hits : j <= k

OpenTag(name) == <<"<">> \o name
CloseTag(name) == <<"<", "/">> \o name \o <<">">>

\* r'<NAME[^>]*/?>'
TagRule(name) == [kind |-> "tag", name |-> name, marker |-> <<>>]
\* r'<NAME[^>]*/>'
SelfCloseRule(name) == [kind |-> "selfclose", name |-> name, marker |-> <<>>]
\* r'<NAME[^>]*>.*?</NAME>'
PairRule(name) == [kind |-> "pair", name |-> name, marker |-> <<>>]
\* r'<NAME[^>]*>.*?MARKER.*?</NAME>'
MarkedRule(name, marker) == [kind |-> "marked", name |-> name, marker |-> marker]

\* Last position of the match of rule that starts at position i of s (0: the
\* pattern does not match at i).  [^>]* cannot cross a ">", so the opening
\* tag ends at the first ">" after the name; .*? stops at the first
\* occurrence of what follows it.
MatchEnd(rule, s, i) ==
    LET open == OpenTag(rule.name)
        close == CloseTag(rule.name)
        gt == IF StartsAt(s, i, open) THEN FindFrom(s, i + Len(open), <<">">>) ELSE 0
    IN  IF gt = 0 THEN 0
        ELSE CASE rule.kind = "tag" -> gt
               [] rule.kind = "selfclose" ->
                    IF gt - 1 >= i + Len(open) /\ s[gt - 1] = "/" THEN gt ELSE 0
               [] rule.kind = "pair" ->
                    LET c == FindFrom(s, gt + 1, close)
                    IN  IF c = 0 THEN 0 ELSE c + Len(close) - 1
               [] rule.kind = "marked" ->
                    LET m == FindFrom(s, gt + 1, rule.marker)
                        c == IF m = 0 THEN 0 ELSE FindFrom(s, m + Len(rule.marker), close)
                    IN  IF c = 0 THEN 0 ELSE c + Len(close) - 1

\* re.sub(pattern, '', s) from position pos on: the text that is left and the
\* number of matches that were deleted
RECURSIVE SubFrom(_, _, _)
SubFrom(rule, s, pos) ==
    IF pos > Len(s) THEN [text |-> <<>>, n |-> 0]
    ELSE LET e == MatchEnd(rule, s, pos)
         IN  IF e # 0
             THEN With(SubFrom(rule, s, e + 1),
                       LAMBDA r : [text |-> r.text, n |-> r.n + 1])
             ELSE With(SubFrom(rule, s, pos + 1),
                       LAMBDA r : [text |-> <<s[pos]>> \o r.text, n |-> r.n])

\* for p in patterns: content = re.sub(p, '', content)
RECURSIVE SubAll(_, _)
SubAll(rules, s) ==
    IF rules = <<>> THEN [text |-> s, n |-> 0]
    ELSE With(SubFrom(Head(rules), s, 1), LAMBDA first :
         With(SubAll(Tail(rules), first.text), LAMBDA rest :
            [text |-> rest.text, n |-> first.n + rest.n]))

(***************************************************************************)
(* The removal rules of each targeted part, in the order the code applies  *)
(* them.  Element names and markers are single atoms.                      *)
(***************************************************************************)
PartKinds == {"settings", "header", "document", "workbook", "sheet", "presentation"}

\* the element name the part's first rule is about
ElementName(kind) ==
    CASE kind = "settings" -> <<"w:documentProtection">>
      [] kind = "header" -> <<"w:pict">>
      [] kind = "document" -> <<"w:background">>
      [] kind = "workbook" -> <<"workbookProtection">>
      [] kind = "sheet" -> <<"sheetProtection">>
      [] kind = "presentation" -> <<"p:modifyVerifier">>

\* a second element name the part's rules are about (<<>>: none)
OtherName(kind) ==
    CASE kind = "settings" -> <<"w:writeProtection">>
      [] kind = "sheet" -> <<"picture">>
      [] OTHER -> <<>>

Rules(kind) ==
    CASE kind = "settings" ->
            << TagRule(<<"w:documentProtection">>), TagRule(<<"w:writeProtection">>) >>
      [] kind = "header" ->
            << MarkedRule(<<"w:pict">>, <<"t136">>),
               MarkedRule(<<"w:pict">>, <<"rotation:">>),
               MarkedRule(<<"w:pict">>, <<"PowerPlusWaterMarkObject">>) >>
      [] kind = "document" ->
            << PairRule(<<"w:background">>), SelfCloseRule(<<"w:background">>) >>
      [] kind = "workbook" ->
            << TagRule(<<"workbookProtection">>), PairRule(<<"workbookProtection">>) >>
      [] kind = "sheet" ->
            << TagRule(<<"sheetProtection">>), PairRule(<<"sheetProtection">>),
               TagRule(<<"picture">>) >>
      [] kind = "presentation" ->
            << SelfCloseRule(<<"p:modifyVerifier">>), PairRule(<<"p:modifyVerifier">>) >>

\* One part's block of _process_docx / _process_xlsx / PPTXProcessor.process:
\* apply the rules, rewrite the part and count iff the content changed.
PatchPart(kind, content) ==
    With(SubAll(Rules(kind), content), LAMBDA r :
        [ before |-> content,
          after |-> r.text,
          changed |-> r.text # content,
          removed |-> IF r.text # content THEN 1 ELSE 0,
          matches |-> r.n ])

(***************************************************************************)
(* Contents of a part: up to MaxChunks chunks.  A chunk is a whole element *)
(* or a piece of character data; the fragment chunks ("lt", "name", "gt")  *)
(* are the characters of a tag occurring on their own, as they can in a    *)
(* comment or a CDATA section.                                             *)
(***************************************************************************)
ElementChunks(kind) ==
    IF kind = "header" THEN {"plain", "markT", "markR", "markW"}
    ELSE {"self", "pair"} \cup (IF OtherName(kind) # <<>> THEN {"other"} ELSE {})

FragmentChunks == {"lt", "name", "gt"}

Chunks(kind) == {"text"} \cup ElementChunks(kind) \cup FragmentChunks

Element(name, children) == OpenTag(name) \o <<">">> \o children \o CloseTag(name)

ChunkText(kind, c) ==
    LET name == ElementName(kind)
    IN  CASE c = "text" -> <<"x">>
          [] c = "lt" -> <<"<">>
          [] c = "name" -> name
          [] c = "gt" -> <<">">>
          [] c = "self" -> OpenTag(name) \o <<"a", "/", ">">>
          [] c = "pair" -> OpenTag(name) \o <<"a", ">", "c">> \o CloseTag(name)
          [] c = "other" -> OpenTag(OtherName(kind)) \o <<"/", ">">>
          [] c = "plain" -> Element(name, <<"c">>)
          [] c = "markT" -> Element(name, <<"t136">>)
          [] c = "markR" -> Element(name, <<"rotation:">>)
          [] c = "markW" -> Element(name, <<"PowerPlusWaterMarkObject">>)

ContentOf(kind, chunks) ==
    Flatten([i \in 1..Len(chunks) |-> ChunkText(kind, chunks[i])])

(***************************************************************************)
(* The patch engine run over one part, once and again over its own output. *)
(***************************************************************************)
XmlIdle ==
    /\ xmlKind = "none"
    /\ xmlChunks = <<>>
    /\ xmlText = <<>>
    /\ xmlRuns = <<>>

XmlStart ==
    /\ xmlKind \in PartKinds
    /\ xmlChunks \in SeqsUpTo(Chunks(xmlKind), MaxChunks)
    /\ xmlText = ContentOf(xmlKind, xmlChunks)
    /\ xmlRuns = <<>>

XmlApply ==
    /\ Len(xmlRuns) < MaxRuns
    /\ \E run \in {PatchPart(xmlKind, xmlText)} :
            /\ xmlRuns' = Append(xmlRuns, run)
            /\ xmlText' = run.after
    /\ UNCHANGED <<xmlKind, xmlChunks>>
    /\ Frame("xml")

(***************************************************************************)
(* PDF: content streams, text blocks and their classification              *)
(* (PDFProcessor.process).  A stream is a sequence of atoms: the           *)
(* characters "B", "T", "E", " ", an operand character "x", a whole        *)
(* keyword, or a whole text-matrix instruction "a b c d e f Tm".           *)
(***************************************************************************)
\* rotation_threshold = 0.1, in thousandths
RotationThreshold == 100
\* angle_min, angle_max, in degrees
AngleMin == 5
AngleMax == 85

\* floor(tan(d degrees) * 10^6) for the degrees of the default band
TanMicro(d) == CASE d = 5 -> 87488 [] d = 85 -> 11430052

Abs(n) == IF n < 0 THEN 0 - n ELSE n

\* the Tm instructions of the model, with the floats their b and c
\* operands parse to, in thousandths
TmTable ==
    << [atom |-> "0.7 0.9 -0.9 0.7 0 0 Tm", b |-> 900, c |-> 0 - 900],
       [atom |-> "1 0 0 1 0 0 Tm", b |-> 0, c |-> 0],
       [atom |-> "1 0.01 0.01 1 0 0 Tm", b |-> 10, c |-> 10],
       [atom |-> "1 0.035 0.5 1 0 0 Tm", b |-> 35, c |-> 500],
       [atom |-> "1 0.087 -0.2 1 0 0 Tm", b |-> 87, c |-> 0 - 200],
       [atom |-> "1 0.088 0.2 1 0 0 Tm", b |-> 88, c |-> 200],
       [atom |-> "1 0.1 0.1 1 0 0 Tm", b |-> 100, c |-> 100],
       [atom |-> "1 0.101 0 1 0 0 Tm", b |-> 101, c |-> 0],
       [atom |-> "1 0 0.5 1 0 0 Tm", b |-> 0, c |-> 500],
       [atom |-> "0.7 -0.9 0.9 0.7 0 0 Tm", b |-> 0 - 900, c |-> 900],
       [atom |-> "1 11.43 0 1 0 0 Tm", b |-> 11430, c |-> 0],
       [atom |-> "1 11.431 0 1 0 0 Tm", b |-> 11431, c |-> 0] >>
TmAtoms == { TmTable[i].atom : i \in DOMAIN TmTable }
TmEntry(atom) == TmTable[CHOOSE i \in DOMAIN TmTable : TmTable[i].atom = atom]
TmB(atom) == TmEntry(atom).b
TmC(atom) == TmEntry(atom).c

\* angle_min <= abs(math.degrees(math.atan2(b, 1))) <= angle_max, for b in
\* thousandths: atan is increasing, and tan(d) is no multiple of 10^-6
AngleInBand(b) ==
    /\ Abs(b) * 1000 > TanMicro(AngleMin)
    /\ Abs(b) * 1000 <= TanMicro(AngleMax)

IsSpace(a) == a = " "

\* r'(BT\s+.*?ET)' with DOTALL: last position of the match that starts at
\* position i of s (0: no match at i)
BlockEnd(s, i) ==
    IF ~(StartsAt(s, i, <<"B", "T">>) /\ i + 2 <= Len(s) /\ IsSpace(s[i + 2])) THEN 0
    ELSE LET rest == { j \in (i + 2)..Len(s) : ~IsSpace(s[j]) }
             j0 == IF rest = {} THEN Len(s) + 1
                   ELSE CHOOSE j \in rest : \A k \in rest : j <= k
             e == FindFrom(s, j0, <<"E", "T">>)
         IN  IF e = 0 THEN 0 ELSE e + 1

\* tm_pattern.search(block): the first Tm instruction of the block (0: none)
TmSearch(block) ==
    LET hits == { j \in 1..Len(block) : block[j] \in TmAtoms }
    IN  IF hits = {} THEN 0 ELSE CHOOSE j \in hits : \A k \in hits : j <= k

\* a rotation test that wants both shear components above the threshold
IsRotatedBothShear(block) ==
    LET t == TmSearch(block)
    IN  /\ t # 0
        /\ (Abs(TmB(block[t])) > RotationThreshold /\ Abs(TmC(block[t])) > RotationThreshold)
        /\ AngleInBand(TmB(block[t]))

\* the rotation test of filter_watermarks
IsRotated(block) ==
    LET t == TmSearch(block)
    IN  /\ t # 0
        /\ (Abs(TmB(block[t])) > RotationThreshold \/ Abs(TmC(block[t])) > RotationThreshold)
        /\ AngleInBand(TmB(block[t]))

\* kw in block
HasKeyword(block, kw) == FindFrom(block, 1, kw) # 0

\* filter_watermarks(match): what is added to page_removed and whether the
\* block is replaced by ''.  In preview mode no test returns early.
FilterBlock(block, preview, keywords) ==
    LET rot == IsRotated(block)
        kwHits == { i \in 1..Len(keywords) : HasKeyword(block, keywords[i]) }
    IN  IF preview
        THEN [count |-> (IF rot THEN 1 ELSE 0) + Cardinality(kwHits), drop |-> FALSE]
        ELSE IF rot \/ kwHits # {}
             THEN [count |-> 1, drop |-> TRUE]
             ELSE [count |-> 0, drop |-> FALSE]

\* pattern.sub(filter_watermarks, text) from position pos on
RECURSIVE FilterFrom(_, _, _, _)
FilterFrom(s, pos, preview, keywords) ==
    IF pos > Len(s) THEN [text |-> <<>>, removed |-> 0, scanned |-> 0]
    ELSE LET e == BlockEnd(s, pos)
         IN  IF e # 0
             THEN With(FilterBlock(SubSeq(s, pos, e), preview, keywords), LAMBDA f :
                  With(FilterFrom(s, e + 1, preview, keywords), LAMBDA r :
                      [ text |-> (IF f.drop THEN <<>> ELSE SubSeq(s, pos, e)) \o r.text,
                        removed |-> f.count + r.removed,
                        scanned |-> 1 + r.scanned ]))
             ELSE With(FilterFrom(s, pos + 1, preview, keywords), LAMBDA r :
                      [ text |-> <<s[pos]>> \o r.text,
                        removed |-> r.removed,
                        scanned |-> r.scanned ])

\* for stream in streams: ... of one page, from stream k on; page_removed is
\* the page's counter so far.  A stream is written when the page's counter
\* is positive.
RECURSIVE FilterStreams(_, _, _, _, _)
FilterStreams(streams, k, page_removed, preview, keywords) ==
    IF k > Len(streams)
    THEN [streams |-> <<>>, written |-> <<>>, page_removed |-> page_removed, scanned |-> 0]
    ELSE With(FilterFrom(streams[k], 1, preview, keywords), LAMBDA f :
         With(page_removed + f.removed, LAMBDA pr :
         With(pr > 0 /\ ~preview, LAMBDA write :
         With(FilterStreams(streams, k + 1, pr, preview, keywords), LAMBDA r :
             [ streams |-> <<IF write THEN f.text ELSE streams[k]>> \o r.streams,
               written |-> <<write>> \o r.written,
               page_removed |-> r.page_removed,
               scanned |-> f.scanned + r.scanned ]))))

\* for page_num, page in enumerate(pdf.pages): ..., from page n on.  A page
\* without /Contents is a page with no stream.
RECURSIVE FilterPages(_, _, _, _)
FilterPages(pages, n, preview, keywords) ==
    IF n > Len(pages)
    THEN [pages |-> <<>>, written |-> <<>>, removed |-> 0, scanned |-> 0, callbacks |-> <<>>]
    ELSE With(FilterStreams(pages[n], 1, 0, preview, keywords), LAMBDA p :
         With(FilterPages(pages, n + 1, preview, keywords), LAMBDA r :
             [ pages |-> <<p.streams>> \o r.pages,
               written |-> <<p.written>> \o r.written,
               removed |-> p.page_removed + r.removed,
               scanned |-> p.scanned + r.scanned,
               callbacks |-> <<[current |-> n, total |-> Len(pages)]>> \o r.callbacks ]))

\* Files.  A PDF is its pages; a locked PDF cannot be opened without a
\* password (pikepdf.open tries the empty password by default, so the retry
\* with password='' fails like the first attempt).
NoFile == [kind |-> "none", pages |-> <<>>]
LockedPdf == [kind |-> "locked", pages |-> <<>>]
Pdf(pages) == [kind |-> "pdf", pages |-> pages]

\* A path in the document's directory: the stem, as the pieces appended to
\* it, and the extension.
Path(stem, ext) == [stem |-> stem, ext |-> ext]

NoPath == Path(<<>>, "")

\* get_default_output(input_path, suffix): the suffix goes between the
\* stem and the extension.
DefaultOutput(path, suffix) == Path(Append(path.stem, suffix), path.ext)

InputPdf == Path(<<"doc">>, ".pdf")
PdfPaths == { InputPdf,
              DefaultOutput(InputPdf, "_out"),
              DefaultOutput(DefaultOutput(InputPdf, "_out"), "_out") }

NewStats == [pages |-> 0, removed |-> 0, scanned |-> 0]

\* PDFProcessor.process(input_path) on the instance proc with the files fs:
\* the instance, the files and the ProcessResult after the call
PdfFailure(proc, fs, msg) ==
    [ proc |-> proc, fs |-> fs, callbacks |-> <<>>, written |-> <<>>,
      result |-> [ success |-> FALSE, output_path |-> NoPath, message |-> msg,
                   removed_count |-> 0, page_count |-> 0 ] ]

PdfProcessCall(proc, fs, input_path, keywords) ==
    LET output_path == DefaultOutput(input_path, "_out")
        doc == fs[input_path]
    IN  CASE doc.kind = "none" -> PdfFailure(proc, fs, "failed: no such file")
          [] doc.kind = "locked" -> PdfFailure(proc, fs, "password needed")
          [] doc.kind = "pdf" ->
              With(FilterPages(doc.pages, 1, proc.preview, keywords), LAMBDA f :
              With(proc.stats.removed + f.removed, LAMBDA removed :
                [ proc |-> [proc EXCEPT !.stats = [ pages |-> Len(doc.pages),
                                                    removed |-> removed,
                                                    scanned |-> @.scanned + f.scanned ],
                                        !.used = TRUE],
                  fs |-> IF ~proc.preview /\ removed > 0
                         THEN [fs EXCEPT ![output_path] = Pdf(f.pages)]
                         ELSE fs,
                  callbacks |-> f.callbacks,
                  written |-> f.written,
                  result |-> [ success |-> TRUE,
                               output_path |-> IF proc.preview THEN NoPath ELSE output_path,
                               message |-> IF proc.preview THEN "scan done" ELSE "done",
                               removed_count |-> removed,
                               page_count |-> Len(doc.pages) ] ]))

\* Streams are composed of up to MaxStreamChunks chunks: whole text blocks
\* (followed by a space) and the pieces "BT", "ET", " ", a keyword.
Keyword == <<"DRAFT">>
StreamChunks == {"BT", "ET", "sp", "kw", "plain", "rot", "kwblk", "rotkw"}

StreamChunkText(c) ==
    CASE c = "BT" -> <<"B", "T">>
      [] c = "ET" -> <<"E", "T">>
      [] c = "sp" -> <<" ">>
      [] c = "kw" -> Keyword
      [] c = "plain" -> <<"B", "T", " ", "1 0 0 1 0 0 Tm", "x", "E", "T", " ">>
      [] c = "rot" -> <<"B", "T", " ", "0.7 0.9 -0.9 0.7 0 0 Tm", "x", "E", "T", " ">>
      [] c = "kwblk" -> <<"B", "T", " ">> \o Keyword \o <<"E", "T", " ">>
      [] c = "rotkw" ->
            <<"B", "T", " ", "0.7 0.9 -0.9 0.7 0 0 Tm">> \o Keyword \o <<"E", "T", " ">>

StreamOf(chunks) ==
    Flatten([i \in 1..Len(chunks) |-> StreamChunkText(chunks[i])])

PdfIdle ==
    /\ pdfKeywords = <<>>
    /\ pdfFs = [p \in PdfPaths |-> NoFile]
    /\ pdfProc = [made |-> FALSE, used |-> FALSE, preview |-> FALSE, stats |-> NewStats]
    /\ pdfRuns = <<>>

\* one-page documents with one rich stream, and a locked document
PdfStart ==
    /\ pdfKeywords \in {<<>>, <<Keyword>>}
    /\ \E doc \in { Pdf(<< <<StreamOf(c)>> >>) : c \in SeqsUpTo(StreamChunks, MaxStreamChunks) }
                    \cup {LockedPdf} :
            pdfFs = [p \in PdfPaths |-> IF p = InputPdf THEN doc ELSE NoFile]
    /\ pdfProc = [made |-> FALSE, used |-> FALSE, preview |-> FALSE, stats |-> NewStats]
    /\ pdfRuns = <<>>

\* PDFProcessor(preview=..., keywords=...)
PdfConstruct(preview) ==
    /\ Len(pdfRuns) < MaxRuns
    /\ ~pdfProc.made \/ pdfProc.used
    /\ pdfProc' = [made |-> TRUE, used |-> FALSE, preview |-> preview, stats |-> NewStats]
    /\ UNCHANGED <<pdfKeywords, pdfFs, pdfRuns>>
    /\ Frame("pdf")

\* processor.process(input_path)
PdfProcess(input_path) ==
    /\ Len(pdfRuns) < MaxRuns
    /\ pdfProc.made
    /\ \E c \in {PdfProcessCall(pdfProc, pdfFs, input_path, pdfKeywords)} :
           /\ pdfProc' = c.proc
           /\ pdfFs' = c.fs
           /\ pdfRuns' = Append(pdfRuns,
                [ preview |-> pdfProc.preview,
                  fresh |-> ~pdfProc.used,
                  input |-> input_path,
                  doc |-> pdfFs[input_path],
                  result |-> c.result,
                  callbacks |-> c.callbacks,
                  written |-> c.written,
                  saved |-> c.fs[DefaultOutput(input_path, "_out")] ])
    /\ UNCHANGED pdfKeywords
    /\ Frame("pdf")

(***************************************************************************)
(* One text block and its classification (filter_watermarks on one match   *)
(* of the block pattern).                                                  *)
(***************************************************************************)
\* the most Tm instructions and keywords a block of the model holds
MaxOperators == 2

\* "BT", the operators, "ET"
BlockOf(body) == <<"B", "T", " ">> \o body \o <<" ", "E", "T">>

BlkIdle ==
    /\ blkText = <<>>
    /\ blkRuns = <<>>

BlkStart ==
    /\ blkText \in { BlockOf(body) :
                        body \in SeqsUpTo(TmAtoms \cup {Keyword[1]}, MaxOperators) }
    /\ blkRuns = <<>>

\* filter_watermarks(match) on a processor with the default thresholds
BlkFilter(preview, keywords) ==
    /\ Len(blkRuns) < MaxRuns
    /\ \E v \in {FilterBlock(blkText, preview, keywords)} :
           blkRuns' = Append(blkRuns,
                [ preview |-> preview,
                  keywords |-> keywords,
                  block |-> blkText,
                  rotated |-> IsRotated(blkText),
                  count |-> v.count,
                  drop |-> v.drop ])
    /\ UNCHANGED blkText
    /\ Frame("blk")

(***************************************************************************)
(* ZIP-based documents: the files of the document's directory and the      *)
(* three OOXML processors (WordProcessor, ExcelProcessor, PPTXProcessor).   *)
(* An archive is a function from part names to part contents.  A part      *)
(* name is a sequence of atoms: the directory with the fixed prefix of the *)
(* file name, then the characters the glob star stands for, then ".xml".   *)
(***************************************************************************)
\* part contents: an XML text part, or a slide as ElementTree parses it
XmlPart(text) == [form |-> "text", text |-> text, shapes |-> <<>>, serial |-> "orig"]
SlidePart(form, shapes) == [form |-> form, text |-> <<>>, shapes |-> shapes, serial |-> "orig"]
\* a part whose bytes are no UTF-8 text: reading it raises UnicodeDecodeError
RawPart == [form |-> "raw", text |-> <<>>, shapes |-> <<>>, serial |-> "orig"]

NoParts == [n \in {} |-> XmlPart(<<>>)]

\* what a path of the directory holds
Missing == [kind |-> "none", parts |-> NoParts, data |-> ""]
Archive(parts) == [kind |-> "zip", parts |-> parts, data |-> ""]
Binary(data) == [kind |-> "binary", parts |-> NoParts, data |-> data]
Directory(tree) == [kind |-> "dir", parts |-> tree, data |-> ""]

\* zipfile.is_zipfile(path)
IsZipFile(node) == node.kind = "zip"

\* Path.with_suffix(ext)
WithSuffix(path, ext) == Path(path.stem, ext)

\* temp_dir = input_path.parent / f'_pptx_temp_{input_path.stem}'
TempDirOf(path) == Path(<<"_pptx_temp_">> \o path.stem, "")

\* the directory tempfile.TemporaryDirectory() makes
TempPath == Path(<<"tmp">>, "")

\* a workspace that is left behind
LeaveTree(fs, path) == fs

\* shutil.rmtree(path), TemporaryDirectory.cleanup()
RemoveTree(fs, path) == [fs EXCEPT ![path] = Missing]

\* zf.extractall(temp_dir): the workspace holds one file per part
Extract(node) == node.parts

\* a repackager that lists the workspace root instead of walking it
RepackTopLevel(tree) == [n \in DOMAIN tree \cap {<<"[Content_Types].xml">>} |-> tree[n]]

\* the archive written from os.walk(temp_dir): one part per file
Repack(tree) == tree

\* the names of the parts
ContentTypes == <<"[Content_Types].xml">>
SettingsXml == <<"word/settings.xml">>
DocumentXml == <<"word/document.xml">>
HeaderXml(n) == <<"word/header", n, ".xml">>
WorkbookXml == <<"xl/workbook.xml">>
SheetXml(n) == <<"xl/worksheets/sheet", n, ".xml">>
PresentationXml == <<"ppt/presentation.xml">>
SlideXml(digits) == <<"ppt/slides/slide">> \o digits \o <<".xml">>
MediaPart == <<"ppt/media/image1.png">>

\* glob(prefix + "*.xml")
Globbed(name, prefix) ==
    /\ Len(name) >= 2
    /\ name[1] = prefix
    /\ name[Len(name)] = ".xml"

\* the kind of rules WordProcessor._process_docx applies to a part
WordKind(name, mode) ==
    IF name = SettingsXml /\ mode \in {"protection", "all"} THEN "settings"
    ELSE IF Globbed(name, "word/header") /\ mode \in {"watermark", "all"} THEN "header"
    ELSE IF name = DocumentXml /\ mode \in {"watermark", "all"} THEN "document"
    ELSE "none"

\* the kind of rules ExcelProcessor._process_xlsx applies to a part
ExcelKind(name) ==
    IF name = WorkbookXml THEN "workbook"
    ELSE IF Globbed(name, "xl/worksheets/sheet") THEN "sheet"
    ELSE "none"

\* shutil.copy2(src, dst) raises unless src is a file other than dst and
\* the directory can be written
CanCopy(fs, writable, src, dst) ==
    /\ fs[src].kind \in {"zip", "binary"}
    /\ fs[dst].kind # "dir"
    /\ src # dst
    /\ writable

\* the ProcessResult of a failed call, and what the call leaves behind
ZipFailure(proc, fs, msg) ==
    [ proc |-> proc, fs |-> fs, raised |-> FALSE, extracted |-> FALSE,
      callbacks |-> <<>>, workspace |-> NoPath,
      result |-> [ success |-> FALSE, output_path |-> NoPath, message |-> msg,
                   removed_count |-> 0, page_count |-> 0 ] ]

\* the ProcessResult of a successful call
ZipSuccess(proc, fs, output_path, msg, removed_count) ==
    [ proc |-> proc, fs |-> fs, raised |-> FALSE, extracted |-> TRUE,
      callbacks |-> <<>>, workspace |-> NoPath,
      result |-> [ success |-> TRUE, output_path |-> output_path, message |-> msg,
                   removed_count |-> removed_count, page_count |-> 0 ] ]

\* the place of a part in the order _process_docx / _process_xlsx read the
\* parts: settings, headers, document; workbook, sheets
KindRank(kind) ==
    CASE kind \in {"settings", "workbook"} -> 1
      [] kind \in {"header", "sheet"} -> 2
      [] OTHER -> 3

\* _process_docx / _process_xlsx on the archive at file_path: the archive
\* is extracted into a temporary directory, every part the processor
\* targets is read and patched there, the archive is rewritten from the
\* workspace when a part changed, and the instance counts one removal per
\* changed part.  Reading a part that is no UTF-8 text raises; the
\* workspace is removed on every way out of the with block.  kinds maps
\* part names to rules.
PatchArchive(proc, fs, file_path, kinds) ==
    With([ n \in { m \in DOMAIN Extract(fs[file_path]) :
                     /\ kinds[m] # "none"
                     /\ \A b \in DOMAIN Extract(fs[file_path]) :
                           (kinds[b] # "none" /\ Extract(fs[file_path])[b].form = "raw")
                               => KindRank(kinds[m]) < KindRank(kinds[b]) } |->
               PatchPart(kinds[n], Extract(fs[file_path])[n].text) ],
         LAMBDA runs :
            LET tree == Extract(fs[file_path])
                raw == { n \in DOMAIN tree : kinds[n] # "none" /\ tree[n].form = "raw" }
                changed == { n \in DOMAIN runs : runs[n].changed }
                patched == [ n \in DOMAIN tree |->
                               IF n \in changed THEN XmlPart(runs[n].after) ELSE tree[n] ]
                work == [fs EXCEPT ![TempPath] = Directory(patched)]
            IN  [ proc |-> [proc EXCEPT !.stats.removed = @ + Cardinality(changed)],
                  raised |-> raw # {},
                  fs |-> RemoveTree(IF changed # {} /\ raw = {}
                                    THEN [work EXCEPT ![file_path] = Archive(Repack(patched))]
                                    ELSE work,
                                    TempPath) ])

\* WordProcessor._process_docx(file_path); not ok for a file that is no
\* archive, raised when a part could not be read
ProcessDocx(proc, fs, file_path) ==
    IF ~IsZipFile(fs[file_path])
    THEN [ok |-> FALSE, raised |-> FALSE, proc |-> proc, fs |-> fs, workspace |-> NoPath]
    ELSE With(PatchArchive(proc, fs, file_path,
                           [n \in DOMAIN fs[file_path].parts |-> WordKind(n, proc.mode)]),
              LAMBDA r : [ok |-> ~r.raised, raised |-> r.raised, proc |-> r.proc,
                          fs |-> r.fs, workspace |-> TempPath])

\* ExcelProcessor._process_xlsx(file_path)
ProcessXlsx(proc, fs, file_path) ==
    IF ~IsZipFile(fs[file_path])
    THEN [ok |-> FALSE, raised |-> FALSE, proc |-> proc, fs |-> fs, workspace |-> NoPath]
    ELSE With(PatchArchive(proc, fs, file_path,
                           [n \in DOMAIN fs[file_path].parts |-> ExcelKind(n)]),
              LAMBDA r : [ok |-> ~r.raised, raised |-> r.raised, proc |-> r.proc,
                          fs |-> r.fs, workspace |-> TempPath])

\* what the external converter (Word or Excel through COM, or soffice)
\* leaves at the sibling path: the converted archive when it works
Converted(fs, writable, input_path, ext, conv, made) ==
    IF conv /\ writable /\ fs[input_path].kind = "binary"
    THEN [fs EXCEPT ![WithSuffix(input_path, ext)] = made]
    ELSE fs

\* the archives the converters make of the legacy documents of the model
ConvertedDocx ==
    Archive([ n \in {ContentTypes, DocumentXml, HeaderXml("1")} |->
                IF n = HeaderXml("1") THEN XmlPart(ContentOf("header", <<"markT">>))
                ELSE XmlPart(ContentOf("document", <<"text">>)) ])
ConvertedXlsx ==
    Archive([ n \in {ContentTypes, WorkbookXml, SheetXml("1")} |->
                IF n = SheetXml("1") THEN XmlPart(ContentOf("sheet", <<"self">>))
                ELSE XmlPart(ContentOf("workbook", <<"text">>)) ])

\* WordProcessor.process(input_path, output_path): the instance, the files
\* and the ProcessResult after the call.  conv: the converter works.
WordProcessCall(proc, fs, writable, input_path, output_arg, conv) ==
    LET suffix == IF proc.mode = "protection" THEN "_unlocked" ELSE "_processed"
        docx_path == WithSuffix(input_path, ".docx")
        legacy == input_path.ext = ".doc"
        source == IF legacy THEN docx_path ELSE input_path
        output_path == IF output_arg # NoPath THEN output_arg
                       ELSE DefaultOutput(source, suffix)
        fs1 == IF legacy
               THEN Converted(fs, writable, input_path, ".docx", conv, ConvertedDocx)
               ELSE fs
    IN  IF input_path.ext = ".docx" /\ ~IsZipFile(fs[input_path])
        THEN ZipFailure(proc, fs, "encrypted")
        ELSE IF legacy /\ fs1[docx_path].kind = "none"
        THEN ZipFailure(proc, fs1, "conversion failed")
        ELSE IF ~CanCopy(fs1, writable, source, output_path)
        THEN ZipFailure(proc, fs1, "failed: copy")
        ELSE With(ProcessDocx(proc, [fs1 EXCEPT ![output_path] = fs1[source]], output_path),
                  LAMBDA r :
                    \* os.remove(docx_path), unless _process_docx raised
                    LET fs3 == IF legacy /\ ~r.raised
                               THEN [r.fs EXCEPT ![docx_path] = Missing]
                               ELSE r.fs
                    IN  [ IF r.ok
                          THEN ZipSuccess(r.proc, fs3, output_path, "done",
                                          r.proc.stats.removed)
                          ELSE IF r.raised
                          THEN [ZipFailure(r.proc, fs3, "failed: decode")
                                  EXCEPT !.extracted = TRUE]
                          ELSE ZipFailure(r.proc, fs3, "processing failed")
                          EXCEPT !.workspace = r.workspace ])

\* ExcelProcessor._process_xls_binary(file_path): the protection records of
\* the binary workbook are overwritten in place
ProcessXlsBinary(proc, fs, file_path) ==
    IF fs[file_path].data = "xls-protected"
    THEN [ proc |-> [proc EXCEPT !.stats.removed = @ + 1],
           fs |-> [fs EXCEPT ![file_path] = Binary("xls-unprotected")] ]
    ELSE [ proc |-> proc, fs |-> fs ]

\* ExcelProcessor.process(input_path, output_path)
ExcelProcessCall(proc, fs, writable, input_path, output_arg, conv) ==
    LET output_path == IF output_arg # NoPath THEN output_arg
                       ELSE DefaultOutput(input_path, "_unlocked")
        xlsx_path == WithSuffix(input_path, ".xlsx")
        fs1 == [fs EXCEPT ![output_path] = fs[input_path]]
        fs2 == Converted(fs1, writable, input_path, ".xlsx", conv, ConvertedXlsx)
        done(r, path) ==
            [ IF r.ok THEN ZipSuccess(r.proc, r.fs, path, "done", r.proc.stats.removed)
              ELSE IF r.raised
              THEN [ZipFailure(r.proc, r.fs, "failed: decode") EXCEPT !.extracted = TRUE]
              ELSE ZipFailure(r.proc, r.fs, "processing failed")
              EXCEPT !.workspace = r.workspace ]
    IN  IF input_path.ext = ".xlsx" /\ ~IsZipFile(fs[input_path])
        THEN ZipFailure(proc, fs, "encrypted")
        ELSE IF ~CanCopy(fs, writable, input_path, output_path)
        THEN ZipFailure(proc, fs, "failed: copy")
        ELSE IF input_path.ext # ".xls"
        THEN With(ProcessXlsx(proc, fs1, output_path), LAMBDA r : done(r, output_path))
        ELSE IF fs2[xlsx_path].kind # "none"
        THEN With(ProcessXlsx(proc, fs2, xlsx_path), LAMBDA r : done(r, xlsx_path))
        ELSE With(ProcessXlsBinary(proc, fs2, output_path),
                  LAMBDA r : [ ZipSuccess(r.proc, r.fs, output_path, "done",
                                          r.proc.stats.removed)
                               EXCEPT !.extracted = FALSE ])

(***************************************************************************)
(* PPTXProcessor: slides, shapes and their classification.                 *)
(***************************************************************************)
\* alpha_threshold = 80000
AlphaThreshold == 80000
\* a shape without an a:alpha element
NoAlpha == 0 - 1

\* name_patterns; the two Chinese words are one atom each
NamePatterns == << <<"{yishuzi}">>, <<"W", "o", "r", "d", "A", "r", "t">>, <<"{shuiyin}">> >>

\* a child of p:spTree.  tag: "sp" for p:sp; named: it has a p:cNvPr;
\* name: the name attribute; wordArt: a:bodyPr has fromWordArt="1";
\* alpha: the val of its a:alpha
Shape(tag, named, name, wordArt, alpha) ==
    [tag |-> tag, named |-> named, name |-> name, wordArt |-> wordArt, alpha |-> alpha]

\* str.lower()
LowerChar(c) ==
    CASE c = "W" -> "w"
      [] c = "A" -> "a"
      [] c = "T" -> "t"
      [] OTHER -> c
Lower(s) == [i \in 1..Len(s) |-> LowerChar(s[i])]

\* a match of the patterns as they are spelled
NameMatchesCaseSensitive(name, patterns) ==
    \E i \in 1..Len(patterns) : FindFrom(name, 1, patterns[i]) # 0

\* pattern.lower() in name.lower(), for some pattern of name_patterns
NameMatches(name, patterns) ==
    \E i \in 1..Len(patterns) : FindFrom(Lower(name), 1, Lower(patterns[i])) # 0

\* the classification of one p:sp
IsWatermark(sp, proc) ==
    /\ sp.named
    /\ \/ NameMatches(sp.name, proc.name_patterns)
       \/ /\ proc.detect_wordart
          /\ sp.wordArt
          /\ sp.alpha # NoAlpha
          /\ sp.alpha < proc.alpha_threshold

\* the characters "0".."9" and their values
Digits == <<"0", "1", "2", "3", "4", "5", "6", "7", "8", "9">>
IsDigit(a) == \E i \in 1..10 : Digits[i] = a
DigitVal(a) == (CHOOSE i \in 1..10 : Digits[i] = a) - 1

\* int() of the digits from position i on
RECURSIVE IntFrom(_, _, _)
IntFrom(name, i, acc) ==
    IF i > Len(name) \/ ~IsDigit(name[i]) THEN acc
    ELSE IntFrom(name, i + 1, acc * 10 + DigitVal(name[i]))

\* no digit in the stem: re.search returns None
NoKey == 0 - 1

\* int(re.search(r'\d+', x.stem).group()): the first run of digits
SlideKey(name) ==
    LET at == { i \in 2..(Len(name) - 1) : IsDigit(name[i]) }
    IN  IF at = {} THEN NoKey
        ELSE IntFrom(name, CHOOSE i \in at : \A j \in at : i <= j, 0)

\* sorted(list, key=...): each element goes behind the elements whose key
\* is not greater (the sort is stable); key maps the elements to integers
RECURSIVE InsertSorted(_, _, _)
InsertSorted(sorted, x, key) ==
    IF sorted = <<>> THEN <<x>>
    ELSE IF key[x] < key[sorted[Len(sorted)]]
         THEN With(InsertSorted(SubSeq(sorted, 1, Len(sorted) - 1), x, key),
                   LAMBDA r : Append(r, sorted[Len(sorted)]))
         ELSE Append(sorted, x)

RECURSIVE SortedFrom(_, _, _)
SortedFrom(list, n, key) ==
    IF n = 0 THEN <<>>
    ELSE With(SortedFrom(list, n - 1, key),
              LAMBDA r : InsertSorted(r, list[n], key))

\* the rank of a slide file name among the names as strings: "." sorts
\* before the digits, so slide1.xml < slide10.xml < slide2.xml
NameRank(name) ==
    LET code(i) == IF i < Len(name) /\ IsDigit(name[i]) THEN DigitVal(name[i]) + 1 ELSE 0
    IN  code(2) * 121 + code(3) * 11 + code(4)

\* sorted(slides_dir.glob('slide*.xml')) without the numeric key
SortSlidesByName(globbed) ==
    SortedFrom(globbed, Len(globbed),
               [n \in { globbed[i] : i \in 1..Len(globbed) } |-> NameRank(n)])

\* sorted(slides_dir.glob('slide*.xml'), key=...): the slides in the order
\* the loop visits them, given the order the glob yields them
SortSlides(globbed) ==
    SortedFrom(globbed, Len(globbed),
               [n \in { globbed[i] : i \in 1..Len(globbed) } |-> SlideKey(n)])

\* the slide parts of the workspace
SlideNames(tree) == { n \in DOMAIN tree : Globbed(n, "ppt/slides/slide") }

\* the orders in which the glob can yield a set of names
Orders(S) ==
    { o \in [1..Cardinality(S) -> S] : \A i, j \in 1..Cardinality(S) : o[i] = o[j] => i = j }

\* the body of the slide loop for one parsed slide: the instance and the
\* slide file after it
VisitSlide(proc, part) ==
    LET sps == { i \in 1..Len(part.shapes) : part.shapes[i].tag = "sp" }
        watermarks == { i \in sps : IsWatermark(part.shapes[i], proc) }
        keep(sp) == ~(sp.tag = "sp" /\ IsWatermark(sp, proc))
        counted == [proc EXCEPT !.stats.scanned = @ + Cardinality(sps),
                                !.stats.removed = @ + Cardinality(watermarks)]
    IN  IF part.form = "bare" THEN [proc |-> proc, part |-> part]
        ELSE IF watermarks # {} /\ ~proc.preview
        THEN [ proc |-> counted,
               part |-> [part EXCEPT !.shapes = SelectSeq(part.shapes, keep),
                                     !.serial = "etree"] ]
        ELSE [proc |-> counted, part |-> part]

\* a progress call that counts the slides from 0
ProgressCallFromZero(i, total, name) == [current |-> i - 1, total |-> total, name |-> name]

\* progress_callback(i + 1, self.stats['pages'], ...) for the i-th slide
\* file, i counted from 1 here
ProgressCall(i, total, name) == [current |-> i, total |-> total, name |-> name]

\* the slide loop from the i-th slide on: the progress callback, then the
\* parse (which raises on a slide that is not well-formed XML), then the body
RECURSIVE VisitSlides(_, _, _, _)
VisitSlides(proc, tree, slide_files, i) ==
    IF i > Len(slide_files)
    THEN [proc |-> proc, tree |-> tree, callbacks |-> <<>>, raised |-> FALSE]
    ELSE LET name == slide_files[i]
             cb == ProgressCall(i, Len(slide_files), name)
         IN  IF tree[name].form = "broken"
             THEN [proc |-> proc, tree |-> tree, callbacks |-> <<cb>>, raised |-> TRUE]
             ELSE With(VisitSlide(proc, tree[name]), LAMBDA v :
                  With(VisitSlides(v.proc, [tree EXCEPT ![name] = v.part],
                                   slide_files, i + 1),
                       LAMBDA r : [r EXCEPT !.callbacks = <<cb>> \o @]))

\* a call that ended in an exception instead of a ProcessResult
ZipRaised(proc, fs) ==
    [ZipFailure(proc, fs, "") EXCEPT !.raised = TRUE]

\* PPTXProcessor.process(input_path, output_path, progress_callback).
\* globbed: the slide files in the order the glob yields them.
PptxProcessCall(proc, fs, writable, input_path, output_arg, globbed) ==
    LET output_path == IF output_arg # NoPath THEN output_arg
                       ELSE DefaultOutput(input_path, "_nowm")
        temp_dir == TempDirOf(input_path)
        \* rmtree of an old workspace, and mkdir
        fs0 == [RemoveTree(fs, temp_dir) EXCEPT ![temp_dir] = Directory(NoParts)]
        tree0 == Extract(fs[input_path])
        pres == IF PresentationXml \in DOMAIN tree0
                THEN PatchPart("presentation", tree0[PresentationXml].text)
                ELSE PatchPart("presentation", <<>>)
        tree1 == IF pres.changed
                 THEN [tree0 EXCEPT ![PresentationXml] = XmlPart(pres.after)]
                 ELSE tree0
        proc1 == [proc EXCEPT !.stats.removed = @ + pres.removed]
        slides_dir == \E n \in DOMAIN tree0 : n[1] = "ppt/slides/slide"
        \* the files with the workspace as the run has left it when the
        \* finally clause is reached, and after the clause
        cleaned(f, tree) == RemoveTree([f EXCEPT ![temp_dir] = Directory(tree)], temp_dir)
    IN  \* the preparation of the workspace, before the try
        IF ~writable \/ fs[temp_dir].kind \notin {"none", "dir"}
        THEN ZipRaised(proc, fs)
        ELSE IF ~IsZipFile(fs[input_path])
        THEN [ZipFailure(proc, RemoveTree(fs0, temp_dir), "encrypted")
                EXCEPT !.workspace = temp_dir]
        ELSE IF slides_dir /\ \E i \in 1..Len(globbed) : SlideKey(globbed[i]) = NoKey
        THEN [ZipFailure(proc1, cleaned(fs0, tree1), "failed: no digits")
                EXCEPT !.extracted = TRUE, !.workspace = temp_dir]
        ELSE With(VisitSlides([proc1 EXCEPT !.stats.pages =
                                    IF slides_dir THEN Len(globbed) ELSE @],
                              tree1, SortSlides(globbed), 1),
                  LAMBDA r :
                    IF r.raised
                    THEN [ZipFailure(r.proc, cleaned(fs0, r.tree), "failed: parse")
                            EXCEPT !.extracted = TRUE, !.callbacks = r.callbacks,
                                   !.workspace = temp_dir]
                    ELSE [ZipSuccess(r.proc,
                                     IF ~proc.preview /\ r.proc.stats.removed > 0
                                     THEN cleaned([fs0 EXCEPT ![output_path] =
                                                      Archive(Repack(r.tree))], r.tree)
                                     ELSE cleaned(fs0, r.tree),
                                     IF proc.preview THEN NoPath ELSE output_path,
                                     IF proc.preview THEN "scan done" ELSE "done",
                                     r.proc.stats.removed)
                            EXCEPT !.callbacks = r.callbacks,
                                   !.result.page_count = r.proc.stats.pages,
                                   !.workspace = temp_dir])

(***************************************************************************)
(* The documents of the model.                                             *)
(***************************************************************************)
\* the most slide parts a presentation of the model has
MaxSlides == 2
\* the most process() calls of a behaviour
MaxCalls == 2

AbsentPart == [form |-> "absent", text |-> <<>>, shapes |-> <<>>, serial |-> "orig"]

\* the archives that hold, for each name of names, one of the contents the
\* menu offers for it, or lack the part where the menu offers AbsentPart
RECURSIVE PartsOf(_, _)
PartsOf(menu, names) ==
    IF names = {} THEN {NoParts}
    ELSE LET n == CHOOSE m \in names : TRUE
         IN  { IF v = AbsentPart THEN c
               ELSE [m \in DOMAIN c \cup {n} |-> IF m = n THEN v ELSE c[m]] :
                 c \in PartsOf(menu, names \ {n}), v \in menu[n] }

ArchivesOf(menu) == { Archive(c) : c \in PartsOf(menu, DOMAIN menu) }

TextParts(kind, contents) == { XmlPart(ContentOf(kind, c)) : c \in contents }

DocxMenu ==
    [ n \in {ContentTypes, SettingsXml, HeaderXml("1"), HeaderXml("2"), DocumentXml} |->
        CASE n = ContentTypes -> {XmlPart(<<"types">>)}
          [] n = SettingsXml ->
                {AbsentPart} \cup TextParts("settings", {<<"text">>, <<"self", "other">>})
          [] n = HeaderXml("1") ->
                {AbsentPart} \cup TextParts("header", {<<"plain">>, <<"plain", "markT">>})
          [] n = HeaderXml("2") -> {AbsentPart} \cup TextParts("header", {<<"markW">>})
          [] n = DocumentXml ->
                {RawPart} \cup TextParts("document", {<<"text">>, <<"pair", "text">>}) ]

XlsxMenu ==
    [ n \in {ContentTypes, WorkbookXml, SheetXml("1"), SheetXml("2")} |->
        CASE n = ContentTypes -> {XmlPart(<<"types">>)}
          [] n = WorkbookXml ->
                {AbsentPart, RawPart} \cup TextParts("workbook", {<<"text">>, <<"self">>})
          [] n = SheetXml("1") ->
                TextParts("sheet", {<<"text">>, <<"self", "self">>, <<"other">>})
          [] n = SheetXml("2") -> {AbsentPart} \cup TextParts("sheet", {<<"pair">>}) ]

\* shapes: a title, a shape named as WordArt, a translucent WordArt text
\* box, and a picture (which is no p:sp)
TitleShape == Shape("sp", TRUE, <<"T", "i", "t", "l", "e">>, FALSE, NoAlpha)
NamedShape == Shape("sp", TRUE, <<"w", "o", "r", "d", "a", "r", "t", " ", "1">>, FALSE, NoAlpha)
ArtShape == Shape("sp", TRUE, <<"B", "o", "x">>, TRUE, 50000)
PictureShape == Shape("pic", TRUE, <<"W", "o", "r", "d", "A", "r", "t">>, FALSE, NoAlpha)

\* the slides: without a watermark, with two, and one that is not
\* well-formed XML
SlideContents ==
    { SlidePart("slide", <<TitleShape, PictureShape>>),
      SlidePart("slide", <<NamedShape, TitleShape, ArtShape>>),
      SlidePart("broken", <<>>) }

SlideMenuNames == { SlideXml(<<"1">>), SlideXml(<<"2">>), SlideXml(<<"1", "0">>),
                    SlideXml(<<"0", "2">>) }

PptxMenu ==
    [ n \in {ContentTypes, MediaPart, PresentationXml} \cup SlideMenuNames |->
        CASE n = ContentTypes -> {XmlPart(<<"types">>)}
          [] n = MediaPart -> {XmlPart(<<"png">>)}
          [] n = PresentationXml ->
                {AbsentPart} \cup TextParts("presentation", {<<"text">>, <<"self">>})
          [] OTHER -> {AbsentPart} \cup SlideContents ]

PptxArchives ==
    { a \in ArchivesOf(PptxMenu) : Cardinality(SlideNames(a.parts)) <= MaxSlides }

\* the input documents by extension; an OOXML extension over a file that
\* is no ZIP container is a password-encrypted (OLE) document
InputDocs(ext) ==
    CASE ext = ".docx" -> ArchivesOf(DocxMenu) \cup {Binary("ole-encrypted")}
      [] ext = ".xlsx" -> ArchivesOf(XlsxMenu) \cup {Binary("ole-encrypted")}
      [] ext = ".pptx" -> PptxArchives \cup {Binary("ole-encrypted")}
      [] ext = ".doc" -> {Binary("doc")}
      [] ext = ".xls" -> {Binary("xls"), Binary("xls-protected")}

ZipInputs == { Path(<<"doc">>, e) : e \in {".docx", ".doc", ".xlsx", ".xls", ".pptx"} }

\* an output path given by the caller
Custom(input_path) == Path(<<"out">>, input_path.ext)

Suffixes == {"_unlocked", "_processed", "_nowm"}

\* the paths of the directory a call on input_path can touch
ZipPathsOf(input_path) ==
    LET sources == {input_path, WithSuffix(input_path, ".docx"),
                    WithSuffix(input_path, ".xlsx")}
    IN  sources \cup { DefaultOutput(s, x) : s \in sources, x \in Suffixes }
                \cup { TempDirOf(input_path), Custom(input_path), TempPath }

\* the processor class the tools pick for an extension (PROCESSOR_MAP)
ClassOf(ext) ==
    CASE ext \in {".docx", ".doc"} -> "WordProcessor"
      [] ext \in {".xlsx", ".xls"} -> "ExcelProcessor"
      [] ext \in {".pptx", ".ppt"} -> "PPTXProcessor"

\* what else the directory holds before the first call: nothing, or
\* something at the path of the PPTX workspace (a directory left behind,
\* or a file), or a file at the path the converter writes to
Strays(input_path) ==
    CASE input_path.ext = ".pptx" ->
            { [path |-> TempDirOf(input_path), node |-> n] :
                n \in { Missing,
                        Directory([m \in {MediaPart} |-> XmlPart(<<"stale">>)]),
                        Binary("note") } }
      [] input_path.ext = ".doc" ->
            { [path |-> WithSuffix(input_path, ".docx"), node |-> n] :
                n \in {Missing, ConvertedDocx} }
      [] input_path.ext = ".xls" ->
            { [path |-> WithSuffix(input_path, ".xlsx"), node |-> n] :
                n \in {Missing, ConvertedXlsx} }
      [] OTHER -> { [path |-> TempDirOf(input_path), node |-> Missing] }

NoProcessor ==
    [ cls |-> "none", made |-> FALSE, used |-> FALSE, preview |-> FALSE, mode |-> "all",
      stats |-> NewStats, name_patterns |-> NamePatterns, detect_wordart |-> TRUE,
      alpha_threshold |-> AlphaThreshold ]

ZipIdle ==
    /\ zipInput = NoPath
    /\ zipFs = [p \in {} |-> Missing]
    /\ zipWritable = TRUE
    /\ zipProc = NoProcessor
    /\ zipRuns = <<>>

ZipStart ==
    /\ zipInput \in ZipInputs
    /\ \E doc \in InputDocs(zipInput.ext), stray \in Strays(zipInput) :
          zipFs = [ p \in ZipPathsOf(zipInput) |->
                      IF p = zipInput THEN doc
                      ELSE IF p = stray.path THEN stray.node
                      ELSE Missing ]
    /\ zipWritable \in BOOLEAN
    /\ zipWritable \/ \A p \in ZipPathsOf(zipInput) \ {zipInput} : zipFs[p] = Missing
    /\ zipProc = NoProcessor
    /\ zipRuns = <<>>

\* WordProcessor(preview, mode=...), ExcelProcessor(preview),
\* PPTXProcessor(preview): the class that handles the input's extension
ZipConstruct(preview, mode) ==
    /\ Len(zipRuns) < MaxCalls
    /\ ~zipProc.made \/ zipProc.used
    /\ mode = "all" \/ ClassOf(zipInput.ext) = "WordProcessor"
    /\ zipProc' = [NoProcessor EXCEPT !.cls = ClassOf(zipInput.ext), !.made = TRUE,
                                      !.preview = preview, !.mode = mode]
    /\ UNCHANGED <<zipInput, zipFs, zipWritable, zipRuns>>
    /\ Frame("zip")

\* the call of the instance's class
ZipProcessCall(proc, fs, writable, input_path, output_arg, conv, globbed) ==
    CASE proc.cls = "WordProcessor" ->
            WordProcessCall(proc, fs, writable, input_path, output_arg, conv)
      [] proc.cls = "ExcelProcessor" ->
            ExcelProcessCall(proc, fs, writable, input_path, output_arg, conv)
      [] proc.cls = "PPTXProcessor" ->
            PptxProcessCall(proc, fs, writable, input_path, output_arg, globbed)

\* processor.process(input_path, output_path, progress_callback).
\* conv: the external converter works; globbed: the order of the glob.
ZipProcess(output_arg, conv, globbed) ==
    /\ Len(zipRuns) < MaxCalls
    /\ zipProc.made
    /\ \E c \in {ZipProcessCall(zipProc, zipFs, zipWritable, zipInput, output_arg,
                                conv, globbed)} :
           /\ zipProc' = [c.proc EXCEPT !.used = TRUE]
           /\ zipFs' = c.fs
           /\ zipRuns' = Append(zipRuns,
                [ cls |-> zipProc.cls,
                  preview |-> zipProc.preview,
                  mode |-> zipProc.mode,
                  fresh |-> ~zipProc.used,
                  input |-> zipInput,
                  output_arg |-> output_arg,
                  globbed |-> globbed,
                  before |-> zipFs,
                  after |-> c.fs,
                  raised |-> c.raised,
                  extracted |-> c.extracted,
                  workspace |-> c.workspace,
                  result |-> c.result,
                  callbacks |-> c.callbacks ])
    /\ UNCHANGED <<zipInput, zipWritable>>
    /\ Frame("zip")

(***************************************************************************)
(* One slide and its visit (the body of the slide loop of                  *)
(* PPTXProcessor.process).                                                 *)
(***************************************************************************)
\* the most children of p:spTree a slide of the model has
MaxShapes == 2

\* the children of p:spTree the slides are composed of
ShapeMenu ==
    { TitleShape, NamedShape, ArtShape, PictureShape,
      \* a name that holds two of the patterns
      Shape("sp", TRUE, <<"W", "o", "r", "d", "A", "r", "t", "{shuiyin}">>, FALSE, NoAlpha),
      \* a translucent WordArt box whose name holds a pattern
      Shape("sp", TRUE, <<"{yishuzi}", " ", "2">>, TRUE, 50000),
      \* WordArt boxes with the alpha at, just below and without the threshold
      Shape("sp", TRUE, <<"B", "o", "x">>, TRUE, 80000),
      Shape("sp", TRUE, <<"B", "o", "x">>, TRUE, 79999),
      Shape("sp", TRUE, <<"B", "o", "x">>, TRUE, NoAlpha),
      \* a translucent box that is no WordArt
      Shape("sp", TRUE, <<"B", "o", "x">>, FALSE, 50000),
      \* a translucent WordArt box whose p:cNvPr has no name attribute
      Shape("sp", TRUE, <<>>, TRUE, 50000),
      \* a translucent WordArt box without a p:cNvPr
      Shape("sp", FALSE, <<>>, TRUE, 50000) }

\* name_patterns given by the caller
OtherPatterns == << <<"B", "o", "x">> >>

SldIdle ==
    /\ sldProc = NoProcessor
    /\ sldPart = AbsentPart
    /\ sldRuns = <<>>

SldStart ==
    /\ \E patterns \in {NamePatterns, OtherPatterns}, detect \in BOOLEAN, preview \in BOOLEAN :
          sldProc = [NoProcessor EXCEPT !.cls = "PPTXProcessor", !.made = TRUE,
                                        !.preview = preview,
                                        !.name_patterns = patterns,
                                        !.detect_wordart = detect]
    /\ sldPart \in { SlidePart("slide", shapes) : shapes \in SeqsUpTo(ShapeMenu, MaxShapes) }
                      \cup { SlidePart("bare", <<>>) }
    /\ sldRuns = <<>>

\* one pass of the slide loop over the slide file
SldVisit ==
    /\ Len(sldRuns) < MaxRuns
    /\ \E v \in {VisitSlide(sldProc, sldPart)} :
           /\ sldProc' = v.proc
           /\ sldPart' = v.part
           /\ sldRuns' = Append(sldRuns,
                 [ proc |-> sldProc,
                   part |-> sldPart,
                   after |-> v.part,
                   scanned |-> v.proc.stats.scanned - sldProc.stats.scanned,
                   removed |-> v.proc.stats.removed - sldProc.stats.removed ])
    /\ Frame("sld")

(***************************************************************************)
(* watermark_remover.py: get_remover, process_single_file, process_batch.  *)
(***************************************************************************)
\* the most files of a file_list
MaxFiles == 3

\* Path(file_path).suffix.lower()
LowerExt(ext) ==
    CASE ext = ".PDF" -> ".pdf"
      [] ext = ".PPTX" -> ".pptx"
      [] OTHER -> ext

\* get_remover(file_path, config): the remover class for the extension;
\* for any other extension the function calls sys.exit(1)
GetRemover(path) ==
    IF LowerExt(path.ext) = ".pdf" THEN "PDFWatermarkRemover"
    ELSE IF LowerExt(path.ext) \in {".pptx", ".ppt"} THEN "PPTXWatermarkRemover"
    ELSE "SystemExit"

\* what a file of the list holds: a document from which process() removes
\* a number of watermarks, or something on which process() raises (no
\* file, a file that pikepdf or zipfile cannot open)
BatchDocs == { [fault |-> TRUE, removed |-> 0],
               [fault |-> FALSE, removed |-> 0],
               [fault |-> FALSE, removed |-> 2] }

BatchFiles ==
    { [path |-> Path(<<"doc">>, ext), doc |-> d] :
        ext \in {".pdf", ".PPTX", ".ppt", ".txt"}, d \in BatchDocs }

\* process_single_file(input_path, config): the result dictionary, or the
\* SystemExit that 'except Exception' does not catch
ProcessSingleFile(file) ==
    IF GetRemover(file.path) = "SystemExit"
    THEN [exit |-> TRUE, success |-> FALSE, file |-> file.path, removed |-> 0]
    ELSE IF file.doc.fault
    THEN [exit |-> FALSE, success |-> FALSE, file |-> file.path, removed |-> 0]
    ELSE [exit |-> FALSE, success |-> TRUE, file |-> file.path,
          removed |-> file.doc.removed]

BatIdle ==
    /\ batFiles = <<>>
    /\ batResults = <<>>
    /\ batStatus = "idle"

\* process_batch(file_list, config) is entered
BatStart ==
    /\ batFiles \in SeqsUpTo(BatchFiles, MaxFiles)
    /\ batResults = <<>>
    /\ batStatus = "loop"

\* one iteration of the loop of process_batch
BatIterate ==
    /\ batStatus = "loop"
    /\ Len(batResults) < Len(batFiles)
    /\ \E r \in {ProcessSingleFile(batFiles[Len(batResults) + 1])} :
          IF r.exit
          THEN /\ batStatus' = "exited"
               /\ UNCHANGED batResults
          ELSE /\ batResults' = Append(batResults, r)
               /\ UNCHANGED batStatus
    /\ UNCHANGED batFiles
    /\ Frame("bat")

\* the loop has ended: the summary is printed and results returned
BatReturn ==
    /\ batStatus = "loop"
    /\ Len(batResults) = Len(batFiles)
    /\ batStatus' = "returned"
    /\ UNCHANGED <<batFiles, batResults>>
    /\ Frame("bat")

(***************************************************************************)
(* Two PPTX runs at once in one directory: the steps of                    *)
(* PPTXProcessor.process and of PPTXWatermarkRemover.process, interleaved. *)
(***************************************************************************)
\* the runs
RunIds == {1, 2}

\* temp_dir of a run: PPTXProcessor names it after the stem of the input,
\* PPTXWatermarkRemover uses one name
WorkspaceOf(cls, input_path) ==
    IF cls = "PPTXProcessor" THEN TempDirOf(input_path)
    ELSE Path(<<"_pptx_processing">>, "")

\* a workspace: absent, or a directory of extracted files; a file has the
\* name of its part, the run that extracted it, and holds a watermark or not
NoWorkspace == [exists |-> FALSE, files |-> {}]

\* the presentations: the numbers of their slides and whether slide 1
\* holds a watermark
RacDocs == { [slides |-> s, marked |-> w] : s \in {{"1"}, {"1", "2"}}, w \in BOOLEAN }

\* the files a run extracts from its input
ExtractedBy(id, doc) ==
    { [name |-> PresentationXml, owner |-> id, marked |-> FALSE] }
        \cup { [name |-> SlideXml(<<d>>), owner |-> id, marked |-> doc.marked /\ d = "1"] :
                 d \in doc.slides }

\* two different input files of one directory
RacInputs ==
    { <<Path(<<"a">>, ".pptx"), Path(<<"b">>, ".pptx")>>,
      <<Path(<<"a">>, ".pptx"), Path(<<"a">>, ".ppt")>> }

RacIdle ==
    /\ racCfg = [cls |-> "none", preview |-> FALSE]
    /\ racRuns = <<>>
    /\ racFs = <<>>
    /\ racLog = {}

RacStart ==
    /\ racCfg \in [cls : {"PPTXProcessor", "PPTXWatermarkRemover"}, preview : BOOLEAN]
    /\ \E inputs \in RacInputs, docs \in [RunIds -> RacDocs] :
          racRuns = [ id \in RunIds |->
                        [ input |-> inputs[id], doc |-> docs[id], pc |-> "prepare",
                          removed |-> 0, packed |-> {} ] ]
    /\ racFs = [ p \in { WorkspaceOf(racCfg.cls, racRuns[id].input) : id \in RunIds } |->
                   NoWorkspace ]
    /\ racLog = {}

RacWorkspace(id) == WorkspaceOf(racCfg.cls, racRuns[id].input)

\* the entries a run adds to the log for the files it deletes or packs
Logged(id, op, files) == { [run |-> id, op |-> op, owner |-> f.owner] : f \in files }

\* if temp_dir.exists(): shutil.rmtree(temp_dir); temp_dir.mkdir()
RacPrepare(id) ==
    /\ racRuns[id].pc = "prepare"
    /\ racLog' = racLog \cup Logged(id, "delete", racFs[RacWorkspace(id)].files)
    /\ racFs' = [racFs EXCEPT ![RacWorkspace(id)] = [exists |-> TRUE, files |-> {}]]
    /\ racRuns' = [racRuns EXCEPT ![id].pc = "extract"]
    /\ UNCHANGED racCfg
    /\ Frame("rac")

\* zf.extractall(temp_dir): files of the same name are overwritten, and
\* the directory is made again if it is gone
RacExtract(id) ==
    /\ racRuns[id].pc = "extract"
    /\ LET mine == ExtractedBy(id, racRuns[id].doc)
           others == { f \in racFs[RacWorkspace(id)].files :
                         \A g \in mine : g.name # f.name }
       IN  racFs' = [racFs EXCEPT ![RacWorkspace(id)] =
                        [exists |-> TRUE, files |-> others \cup mine]]
    /\ racRuns' = [racRuns EXCEPT ![id].pc = "visit"]
    /\ UNCHANGED <<racCfg, racLog>>
    /\ Frame("rac")

\* the slide loop over the slide files the workspace holds: the watermarks
\* are counted and, in apply mode, removed from the files
RacVisit(id) ==
    /\ racRuns[id].pc = "visit"
    /\ LET files == racFs[RacWorkspace(id)].files
           found == { f \in files : f.marked }
       IN  /\ racRuns' = [racRuns EXCEPT ![id].pc = "repack",
                                          ![id].removed = @ + Cardinality(found)]
           /\ racFs' = IF racCfg.preview THEN racFs
                       ELSE [racFs EXCEPT ![RacWorkspace(id)].files =
                               { [f EXCEPT !.marked = FALSE] : f \in files }]
    /\ UNCHANGED <<racCfg, racLog>>
    /\ Frame("rac")

\* if not preview and removed > 0: the files os.walk(temp_dir) finds are
\* written to the output archive
RacRepack(id) ==
    /\ racRuns[id].pc = "repack"
    /\ IF ~racCfg.preview /\ racRuns[id].removed > 0
       THEN /\ racRuns' = [racRuns EXCEPT ![id].pc = "cleanup",
                                           ![id].packed = racFs[RacWorkspace(id)].files]
            /\ racLog' = racLog \cup Logged(id, "repack", racFs[RacWorkspace(id)].files)
       ELSE /\ racRuns' = [racRuns EXCEPT ![id].pc = "cleanup"]
            /\ UNCHANGED racLog
    /\ UNCHANGED <<racCfg, racFs>>
    /\ Frame("rac")

\* finally: if temp_dir.exists(): shutil.rmtree(temp_dir)
RacCleanup(id) ==
    /\ racRuns[id].pc = "cleanup"
    /\ racLog' = racLog \cup Logged(id, "delete", racFs[RacWorkspace(id)].files)
    /\ racFs' = [racFs EXCEPT ![RacWorkspace(id)] = NoWorkspace]
    /\ racRuns' = [racRuns EXCEPT ![id].pc = "done"]
    /\ UNCHANGED racCfg
    /\ Frame("rac")

(***************************************************************************)
(* The page loop of PDFProcessor.process over documents of several pages   *)
(* with several content streams.                                           *)
(***************************************************************************)
\* the most pages of a document and the most content streams of a page
MaxPages == 2
MaxStreams == 2

\* a rotated text object that shows the string (ET)
LiteralBlock ==
    <<"B", "T", " ", "0.7 0.9 -0.9 0.7 0 0 Tm", "(", "E", "T", ")", "T", "j", " ", "E", "T", " ">>

\* the content streams of the model: a text object that is no watermark,
\* a rotated one, a page decoration without text objects, an object with
\* the keyword before a plain one, and a plain object before a rotated
\* one that shows (ET)
DocStreams ==
    { StreamOf(<<"plain">>),
      StreamOf(<<"rot">>),
      <<"q", " ", "Q", " ">>,
      StreamOf(<<"kwblk", "plain">>),
      StreamOf(<<"plain">>) \o LiteralBlock }

DocIdle ==
    /\ docPages = <<>>
    /\ docRuns = <<>>

\* pdf.pages after pikepdf.open; a page without /Contents has no stream
DocStart ==
    /\ docPages \in SeqsUpTo(SeqsUpTo(DocStreams, MaxStreams), MaxPages)
    /\ docRuns = <<>>

\* for page_num, page in enumerate(pdf.pages): ... over the opened document
DocFilter(preview, keywords) ==
    /\ Len(docRuns) < MaxRuns
    /\ \E f \in {FilterPages(docPages, 1, preview, keywords)} :
          docRuns' = Append(docRuns,
                [ preview |-> preview,
                  keywords |-> keywords,
                  pages |-> docPages,
                  after |-> f.pages,
                  written |-> f.written,
                  removed |-> f.removed,
                  callbacks |-> f.callbacks ])
    /\ UNCHANGED docPages
    /\ Frame("doc")

(***************************************************************************)
(* The GUI shells: DocumentUnlockerGUI (document_toolkit_gui.py) and        *)
(* WatermarkRemoverGUI (watermark_remover_gui.py).  The UI thread runs the  *)
(* handlers and the queue poll one at a time; a worker thread runs between  *)
(* them, one statement group at a time.  Widgets that only display are     *)
(* left out.                                                               *)
(***************************************************************************)
\* the most list edits (add, clear, remove) and start requests of a behaviour
MaxEdits == 3
MaxRequests == 2

\* the files the user can add, the pages or slides of each and the
\* watermarks a run removes from each
GuiFileNames == {"a.pdf", "b.pptx"}
GuiUnits(f) == IF f = "a.pdf" THEN 2 ELSE 1
GuiRemoved(f) == IF f = "a.pdf" THEN 1 ELSE 0

\* a progress value x / y * 100, in thousandths
Pct(x, y) == (x * 100000) \div y

Msg(type, data) == [type |-> type, data |-> data]

\* a worker thread: its position, the locals total and items, the number
\* of loop iterations begun, the file in work, and what it has done so far
NewWorker(preview, files) ==
    [ pc |-> "total", preview |-> preview, total |-> 0, items |-> <<>>, i |-> 0,
      file |-> "", removed |-> 0,
      started_with |-> files, begun |-> 0, processed |-> <<>>, progress |-> <<>> ]

\* the positions at which a worker is at work on the documents
Working(w) == w.pc \in {"total", "items", "loop", "process"}

GuiIdle ==
    /\ guiKind = "none"
    /\ guiFiles = <<>>
    /\ guiTree = <<>>
    /\ guiProcessing = FALSE
    /\ guiPolling = FALSE
    /\ guiQueue = <<>>
    /\ guiWorkers = <<>>
    /\ guiUsed = [edits |-> 0, requests |-> 0, items |-> 0]

\* __init__: an empty list, no run, and the first check_queue() has
\* scheduled the next one
GuiStart ==
    /\ guiKind \in {"DocumentUnlockerGUI", "WatermarkRemoverGUI"}
    /\ guiFiles = <<>>
    /\ guiTree = <<>>
    /\ guiProcessing = FALSE
    /\ guiPolling = TRUE
    /\ guiQueue = <<>>
    /\ guiWorkers = <<>>
    /\ guiUsed = [edits |-> 0, requests |-> 0, items |-> 0]

\* add_files_list / add_files_to_list with one file that is not in the list
GuiAddFile(f) ==
    /\ guiUsed.edits < MaxEdits
    /\ \A k \in 1..Len(guiFiles) : guiFiles[k] # f
    /\ guiFiles' = Append(guiFiles, f)
    /\ guiTree' = Append(guiTree, guiUsed.items + 1)
    /\ guiUsed' = [guiUsed EXCEPT !.edits = @ + 1, !.items = @ + 1]
    /\ UNCHANGED <<guiKind, guiProcessing, guiPolling, guiQueue, guiWorkers>>
    /\ Frame("gui")

\* clear_files: file_list.clear() and every row deleted
GuiClearFiles ==
    /\ guiUsed.edits < MaxEdits
    /\ guiFiles # <<>>
    /\ guiFiles' = <<>>
    /\ guiTree' = <<>>
    /\ guiUsed' = [guiUsed EXCEPT !.edits = @ + 1]
    /\ UNCHANGED <<guiKind, guiProcessing, guiPolling, guiQueue, guiWorkers>>
    /\ Frame("gui")

\* s without its k-th element
Without(s, k) == SubSeq(s, 1, k - 1) \o SubSeq(s, k + 1, Len(s))

\* WatermarkRemoverGUI.remove_selected with the k-th row selected
GuiRemoveSelected(k) ==
    /\ guiKind = "WatermarkRemoverGUI"
    /\ guiUsed.edits < MaxEdits
    /\ k \in 1..Len(guiFiles)
    /\ guiFiles' = Without(guiFiles, k)
    /\ guiTree' = Without(guiTree, k)
    /\ guiUsed' = [guiUsed EXCEPT !.edits = @ + 1]
    /\ UNCHANGED <<guiKind, guiProcessing, guiPolling, guiQueue, guiWorkers>>
    /\ Frame("gui")

\* a start handler that does not look at self.processing
GuiStartWorkUnguarded(preview) ==
    /\ guiUsed.requests < MaxRequests
    /\ guiKind = "WatermarkRemoverGUI" \/ ~preview
    /\ guiUsed' = [guiUsed EXCEPT !.requests = @ + 1]
    /\ IF guiFiles = <<>>
       THEN UNCHANGED <<guiProcessing, guiWorkers>>
       ELSE /\ guiProcessing' = TRUE
            /\ guiWorkers' = Append(guiWorkers, NewWorker(preview, guiFiles))
    /\ UNCHANGED <<guiKind, guiFiles, guiTree, guiPolling, guiQueue>>
    /\ Frame("gui")

\* start_process / _start_work(preview): nothing with an empty list or
\* while self.processing is set; else the flag is set and a worker thread
\* is started
GuiStartWork(preview) ==
    /\ guiUsed.requests < MaxRequests
    /\ guiKind = "WatermarkRemoverGUI" \/ ~preview
    /\ guiUsed' = [guiUsed EXCEPT !.requests = @ + 1]
    /\ IF guiFiles = <<>> \/ guiProcessing
       THEN UNCHANGED <<guiProcessing, guiWorkers>>
       ELSE /\ guiProcessing' = TRUE
            /\ guiWorkers' = Append(guiWorkers, NewWorker(preview, guiFiles))
    /\ UNCHANGED <<guiKind, guiFiles, guiTree, guiPolling, guiQueue>>
    /\ Frame("gui")

\* DocumentUnlockerGUI._process_thread, one statement group of worker w.
\* zip(items, self.file_list) reads the list as it is at each iteration;
\* the division by total is outside the try statement.
DocWorkerStep(w) ==
    LET me == guiWorkers[w]
        more == me.i < Len(me.items) /\ me.i < Len(guiFiles)
    IN  CASE me.pc = "total" ->
                /\ guiWorkers' = [guiWorkers EXCEPT ![w].total = Len(guiFiles),
                                                     ![w].pc = "items"]
                /\ UNCHANGED guiQueue
          [] me.pc = "items" ->
                /\ guiWorkers' = [guiWorkers EXCEPT ![w].items = guiTree,
                                                     ![w].pc = "loop"]
                /\ UNCHANGED guiQueue
          [] me.pc = "loop" /\ more /\ me.total = 0 ->
                \* ZeroDivisionError ends the thread
                /\ guiWorkers' = [guiWorkers EXCEPT ![w].pc = "dead"]
                /\ UNCHANGED guiQueue
          [] me.pc = "loop" /\ more /\ me.total # 0 ->
                /\ guiQueue' = guiQueue \o
                        << Msg("progress", Pct(me.i + 1, me.total)),
                           Msg("tree_update", me.items[me.i + 1]) >>
                /\ guiWorkers' = [guiWorkers EXCEPT
                        ![w].pc = "process",
                        ![w].file = guiFiles[me.i + 1],
                        ![w].begun = @ + 1,
                        ![w].progress = Append(@, Pct(me.i + 1, me.total))]
          [] me.pc = "loop" /\ ~more ->
                /\ guiQueue' = guiQueue \o << Msg("log", 0), Msg("done", 0) >>
                /\ guiWorkers' = [guiWorkers EXCEPT ![w].pc = "finished"]
          [] me.pc = "process" ->
                /\ guiQueue' = guiQueue \o
                        << Msg("tree_update", me.items[me.i + 1]), Msg("log", 0) >>
                /\ guiWorkers' = [guiWorkers EXCEPT
                        ![w].pc = "loop",
                        ![w].i = @ + 1,
                        ![w].processed = Append(@, me.file)]

\* the progress values progress_cb puts while the i-th file (from 0) with
\* units pages is processed: (i + current/total) / total_files * 100
CallbackProgress(i, units, total_files) ==
    [ c \in 1..units |-> Pct(i * units + c, units * total_files) ]

\* the messages of progress_cb: a progress and a status per page
RECURSIVE CallbackMsgs(_)
CallbackMsgs(values) ==
    IF values = <<>> THEN <<>>
    ELSE << Msg("progress", values[1]), Msg("status", 0) >> \o CallbackMsgs(Tail(values))

\* WatermarkRemoverGUI._process_files, one statement group of worker w.
\* enumerate(self.file_list) reads the list as it is at each iteration;
\* the division by total_files is inside the try statement.
WmWorkerStep(w) ==
    LET me == guiWorkers[w]
        more == me.i < Len(guiFiles)
    IN  CASE me.pc = "total" ->
                /\ guiWorkers' = [guiWorkers EXCEPT ![w].total = Len(guiFiles),
                                                     ![w].pc = "loop"]
                /\ UNCHANGED guiQueue
          [] me.pc = "loop" /\ more /\ me.total = 0 ->
                \* ZeroDivisionError is caught: an error status, next file
                /\ guiQueue' = guiQueue \o << Msg("status", 0), Msg("status", 0) >>
                /\ guiWorkers' = [guiWorkers EXCEPT ![w].i = @ + 1]
          [] me.pc = "loop" /\ more /\ me.total # 0 ->
                /\ guiQueue' = guiQueue \o
                        << Msg("status", 0), Msg("progress", Pct(me.i, me.total)) >>
                /\ guiWorkers' = [guiWorkers EXCEPT
                        ![w].pc = "process",
                        ![w].file = guiFiles[me.i + 1],
                        ![w].begun = @ + 1,
                        ![w].progress = Append(@, Pct(me.i, me.total))]
          [] me.pc = "loop" /\ ~more ->
                /\ guiQueue' = guiQueue \o
                        << Msg("progress", Pct(1, 1)), Msg("status", 0), Msg("done", 0) >> \o
                        (IF ~me.preview /\ me.removed > 0 THEN <<Msg("msgbox", 0)>> ELSE <<>>)
                /\ guiWorkers' = [guiWorkers EXCEPT
                        ![w].pc = "finished",
                        ![w].progress = Append(@, Pct(1, 1))]
          [] me.pc = "process" ->
                /\ \E values \in {CallbackProgress(me.i, GuiUnits(me.file), me.total)} :
                      /\ guiQueue' = guiQueue \o CallbackMsgs(values)
                      /\ guiWorkers' = [guiWorkers EXCEPT
                            ![w].pc = "loop",
                            ![w].i = @ + 1,
                            ![w].removed = @ + GuiRemoved(me.file),
                            ![w].processed = Append(@, me.file),
                            ![w].progress = @ \o values]

\* a step of worker thread w
GuiWorkerStep(w) ==
    /\ w \in 1..Len(guiWorkers)
    /\ Working(guiWorkers[w])
    /\ IF guiKind = "DocumentUnlockerGUI" THEN DocWorkerStep(w) ELSE WmWorkerStep(w)
    /\ UNCHANGED <<guiKind, guiFiles, guiTree, guiProcessing, guiPolling, guiUsed>>
    /\ Frame("gui")

\* the loop of check_queue over the messages from the k-th on: 'done'
\* resets the flag; in DocumentUnlockerGUI a 'tree_update' for a row that
\* is no longer in the table raises TclError, which ends check_queue
\* before it is scheduled again
RECURSIVE Drain(_, _, _, _)
Drain(queue, k, processing, tree) ==
    IF k > Len(queue)
    THEN [queue |-> <<>>, processing |-> processing, polling |-> TRUE]
    ELSE IF queue[k].type = "tree_update" /\ \A j \in 1..Len(tree) : tree[j] # queue[k].data
    THEN [queue |-> SubSeq(queue, k + 1, Len(queue)), processing |-> processing,
          polling |-> FALSE]
    ELSE Drain(queue, k + 1, IF queue[k].type = "done" THEN FALSE ELSE processing, tree)

\* check_queue, called by the event loop
GuiCheckQueue ==
    /\ guiPolling
    /\ guiQueue # <<>>
    /\ \E d \in {Drain(guiQueue, 1, guiProcessing, guiTree)} :
          /\ guiQueue' = d.queue
          /\ guiProcessing' = d.processing
          /\ guiPolling' = d.polling
    /\ UNCHANGED <<guiKind, guiFiles, guiTree, guiWorkers, guiUsed>>
    /\ Frame("gui")

(***************************************************************************)
(* Specifications.                                                         *)
(***************************************************************************)
\* the parts of the model a specification does not use stay idle
Idle(part) ==
    /\ IF part = "xml" THEN TRUE ELSE XmlIdle
    /\ IF part = "pdf" THEN TRUE ELSE PdfIdle
    /\ IF part = "zip" THEN TRUE ELSE ZipIdle
    /\ IF part = "blk" THEN TRUE ELSE BlkIdle
    /\ IF part = "sld" THEN TRUE ELSE SldIdle
    /\ IF part = "bat" THEN TRUE ELSE BatIdle
    /\ IF part = "rac" THEN TRUE ELSE RacIdle
    /\ IF part = "doc" THEN TRUE ELSE DocIdle
    /\ IF part = "gui" THEN TRUE ELSE GuiIdle

\* the XML patch engine over one part
XmlInit == XmlStart /\ Idle("xml")
XmlNext == XmlApply
SpecXml == XmlInit /\ [][XmlNext]_vars

\* PDFProcessor over a one-page document
PdfInit == PdfStart /\ Idle("pdf")
PdfNext ==
    \/ \E preview \in BOOLEAN : PdfConstruct(preview)
    \/ \E p \in {InputPdf, DefaultOutput(InputPdf, "_out")} : PdfProcess(p)
SpecPdf == PdfInit /\ [][PdfNext]_vars

\* the OOXML processors over one document and its directory
ZipInit == ZipStart /\ Idle("zip")
ZipNext ==
    \/ \E preview \in BOOLEAN, mode \in {"protection", "watermark", "all"} :
            ZipConstruct(preview, mode)
    \/ \E output_arg \in {NoPath, Custom(zipInput)}, conv \in BOOLEAN,
           globbed \in Orders(SlideNames(zipFs[zipInput].parts)) :
            ZipProcess(output_arg, conv, globbed)
SpecZip == ZipInit /\ [][ZipNext]_vars

\* a GUI shell, its user and its worker threads
GuiInit == GuiStart /\ Idle("gui")
GuiNext ==
    \/ \E f \in GuiFileNames : GuiAddFile(f)
    \/ GuiClearFiles
    \/ \E k \in 1..MaxEdits : GuiRemoveSelected(k)
    \/ \E preview \in BOOLEAN : GuiStartWork(preview)
    \/ \E w \in 1..MaxRequests : GuiWorkerStep(w)
    \/ GuiCheckQueue
SpecGui == GuiInit /\ [][GuiNext]_vars

\* the GUI shell with a fair scheduler: a worker thread that can run does
\* run, and the event loop calls check_queue when it is scheduled
SpecGuiFair ==
    /\ SpecGui
    /\ WF_vars(\E w \in 1..MaxRequests : GuiWorkerStep(w))
    /\ WF_vars(GuiCheckQueue)

\* the page loop over a document
DocInit == DocStart /\ Idle("doc")
DocNext == \E preview \in BOOLEAN, keywords \in {<<>>, <<Keyword>>} : DocFilter(preview, keywords)
SpecDoc == DocInit /\ [][DocNext]_vars

\* two PPTX runs at once
RacInit == RacStart /\ Idle("rac")
RacNext ==
    \E id \in RunIds :
        \/ RacPrepare(id)
        \/ RacExtract(id)
        \/ RacVisit(id)
        \/ RacRepack(id)
        \/ RacCleanup(id)
SpecRac == RacInit /\ [][RacNext]_vars

\* process_batch over a list of files
BatInit == BatStart /\ Idle("bat")
BatNext == BatIterate \/ BatReturn
SpecBat == BatInit /\ [][BatNext]_vars

\* the visit of one slide
SldInit == SldStart /\ Idle("sld")
SldNext == SldVisit
SpecSld == SldInit /\ [][SldNext]_vars

\* the classification of one text block
BlkInit == BlkStart /\ Idle("blk")
BlkNext == \E preview \in BOOLEAN, keywords \in {<<>>, <<Keyword>>} : BlkFilter(preview, keywords)
SpecBlk == BlkInit /\ [][BlkNext]_vars

(***************************************************************************)
(* Claims about the XML patch engine.                                      *)
(***************************************************************************)
\* the content is a sequence of whole sibling elements and character data
WellFormed(chunks) == \A i \in 1..Len(chunks) : chunks[i] \notin FragmentChunks

Occurs(s, lit) == FindFrom(s, 1, lit) # 0

\* C1: applying the removal rules to content that has been patched once
\* changes nothing: the second run has no match, does not rewrite the part
\* and counts nothing.
C1_PatchIdempotent ==
    \A i \in 2..Len(xmlRuns) :
        /\ xmlRuns[i].matches = 0
        /\ ~xmlRuns[i].changed
        /\ xmlRuns[i].removed = 0
        /\ xmlRuns[i].after = xmlRuns[i].before

\* C6: for a Word or Excel part in which the rules match k >= 1 elements, the
\* run's removed count increases by k.
C6_CountPerMatch ==
    \A i \in 1..Len(xmlRuns) :
        (xmlKind # "presentation" /\ xmlRuns[i].matches >= 1)
            => xmlRuns[i].removed = xmlRuns[i].matches

\* a <w:pict> element that does not contain a watermark marker, or text
Unmarked(c) == c \in {"text", "plain"}

\* C7: in a header made of sibling <w:pict> elements and text, exactly the
\* <w:pict> elements that contain a marker are deleted; unmarked siblings and
\* the text between siblings stay.
C7_NoOverGreedyDeletion ==
    (xmlKind = "header" /\ WellFormed(xmlChunks) /\ Len(xmlRuns) >= 1)
        => xmlRuns[1].after = ContentOf(xmlKind, SelectSeq(xmlChunks, Unmarked))

ProtectionKinds == {"settings", "workbook", "sheet", "presentation"}

\* C8: when a rule matches a protection element written as an open/close
\* pair, the whole element is deleted: the patched part holds neither its
\* closing tag nor its child content.
C8_ProtectionRemovedWhole ==
    (/\ xmlKind \in ProtectionKinds
     /\ WellFormed(xmlChunks)
     /\ Len(xmlRuns) >= 1
     /\ xmlRuns[1].matches >= 1)
        => /\ ~Occurs(xmlRuns[1].after, CloseTag(ElementName(xmlKind)))
           /\ ~Occurs(xmlRuns[1].after, <<"c">>)

(***************************************************************************)
(* Claims about the classification of one text block.                      *)
(***************************************************************************)
\* the positions of the Tm instructions of a block
TmPositions(block) == { j \in 1..Len(block) : block[j] \in TmAtoms }

\* floor(|atan2(b, 1)| in degrees * 10^6), for the |b| of the model in
\* thousandths; none of the angles is a whole number of microdegrees but 0
\* and 45 degrees
AngleMicroDeg(b) ==
    CASE b = 0 -> 0
      [] b = 10 -> 572938
      [] b = 35 -> 2004534
      [] b = 87 -> 4972213
      [] b = 88 -> 5029073
      [] b = 100 -> 5710593
      [] b = 101 -> 5767315
      [] b = 900 -> 41987212
      [] b = 11430 -> 84999977
      [] b = 11431 -> 85000412

\* (|b| > threshold or |c| > threshold) and
\* angle_min <= |atan2(b, 1)| in degrees <= angle_max, with the defaults
RotatedText(b, c) ==
    /\ Abs(b) > 100 \/ Abs(c) > 100
    /\ 5 * 1000000 <= AngleMicroDeg(Abs(b))
    /\ AngleMicroDeg(Abs(b)) < 85 * 1000000

\* the classification of the block with the one Tm instruction atom
OneTmRotated(atom) == IsRotated(BlockOf(<<atom>>))

\* C11: with the default thresholds a block whose matrix has b=0.9, c=-0.9
\* is rotated text, one with b=0.01, c=0.01 is not, one with an angle of 2
\* degrees is not although c exceeds the threshold; a block with one matrix
\* is rotated text iff (|b| > threshold or |c| > threshold) and
\* angle_min <= |atan2(b,1)| in degrees <= angle_max.
C11_RotationClassification ==
    /\ \A i \in 1..Len(blkRuns) :
          LET at == TmPositions(blkRuns[i].block)
          IN  Cardinality(at) = 1 =>
                \A j \in at :
                    blkRuns[i].rotated
                        <=> RotatedText(TmB(blkRuns[i].block[j]), TmC(blkRuns[i].block[j]))
    /\ blkRuns # <<>> =>
          /\ OneTmRotated("0.7 0.9 -0.9 0.7 0 0 Tm")
          /\ ~OneTmRotated("1 0.01 0.01 1 0 0 Tm")
          /\ ~OneTmRotated("1 0.035 0.5 1 0 0 Tm")

\* a block whose b is below the threshold, whose c is above it and whose
\* angle is just inside the band was classified as rotated text and dropped
C11_Witness ==
    \E i \in 1..Len(blkRuns) :
        /\ blkRuns[i].block = BlockOf(<<"1 0.088 0.2 1 0 0 Tm">>)
        /\ ~blkRuns[i].preview
        /\ blkRuns[i].rotated
        /\ blkRuns[i].drop

\* C19: a block with more than one Tm instruction is classified by the
\* components of the last Tm instruction within it.
C19_LastMatrixUsed ==
    \A i \in 1..Len(blkRuns) :
        LET at == TmPositions(blkRuns[i].block)
        IN  Cardinality(at) > 1 =>
              \A j \in at :
                 (\A k \in at : k <= j) =>
                    (blkRuns[i].rotated
                        <=> RotatedText(TmB(blkRuns[i].block[j]), TmC(blkRuns[i].block[j])))

(***************************************************************************)
(* Claims about the visit of one slide.                                    *)
(***************************************************************************)
\* the letters of the model that differ in case only
CasePairs == { {"W", "w"}, {"A", "a"}, {"T", "t"} }
SameLetter(a, b) == a = b \/ {a, b} \in CasePairs

\* pat is a case-insensitive substring of name
ContainsIgnoringCase(name, pat) ==
    \E o \in 0..(Len(name) - Len(pat)) :
        \A k \in 1..Len(pat) : SameLetter(name[o + k], pat[k])

\* a direct p:sp whose name holds one of the patterns
IsNamedShape(sp, patterns) ==
    /\ sp.tag = "sp"
    /\ sp.named
    /\ \E i \in 1..Len(patterns) : ContainsIgnoringCase(sp.name, patterns[i])

\* a direct p:sp that is no NamedShape, carries fromWordArt="1" and has an
\* alpha below the threshold
IsTransparentWordArt(sp, proc) ==
    /\ sp.tag = "sp"
    /\ proc.detect_wordart
    /\ ~IsNamedShape(sp, proc.name_patterns)
    /\ sp.wordArt
    /\ sp.alpha # NoAlpha
    /\ sp.alpha < proc.alpha_threshold

DirectShapes(part) == { i \in 1..Len(part.shapes) : part.shapes[i].tag = "sp" }

\* C12: with the WordArt detector off, the shapes a visit counts and (in
\* apply mode) removes are the direct p:sp whose name holds a configured
\* pattern as a case-insensitive substring, each once; the count a visit
\* adds never exceeds the number of direct p:sp it visited.
C12_NameMatching ==
    \A i \in 1..Len(sldRuns) :
        LET run == sldRuns[i]
            named(sp) == IsNamedShape(sp, run.proc.name_patterns)
            kept(sp) == ~named(sp)
        IN  /\ run.removed <= run.scanned
            /\ run.part.form = "slide" => run.scanned = Cardinality(DirectShapes(run.part))
            /\ ~run.proc.detect_wordart =>
                  /\ run.removed =
                        Cardinality({ k \in DirectShapes(run.part) : named(run.part.shapes[k]) })
                  /\ ~run.proc.preview => run.after.shapes = SelectSeq(run.part.shapes, kept)

\* a shape whose name holds two patterns, in another case than configured,
\* was counted once and removed
C12_Witness ==
    \E i \in 1..Len(sldRuns) :
        /\ ~sldRuns[i].proc.preview
        /\ sldRuns[i].proc.name_patterns = NamePatterns
        /\ sldRuns[i].part.shapes =
              << NamedShape,
                 Shape("sp", TRUE, <<"W", "o", "r", "d", "A", "r", "t", "{shuiyin}">>,
                       FALSE, NoAlpha) >>
        /\ sldRuns[i].removed = 2
        /\ sldRuns[i].after.shapes = <<>>

\* C20: the shapes an apply visit removes are the NamedShapes and, with
\* detect_wordart on, the direct shapes that are no NamedShape (their name
\* holds no pattern, or they have no name element), carry fromWordArt="1"
\* and have an alpha below alpha_threshold; with detect_wordart off, the
\* NamedShapes only.
C20_WordArtClassification ==
    \A i \in 1..Len(sldRuns) :
        LET run == sldRuns[i]
            kept(sp) == ~(\/ IsNamedShape(sp, run.proc.name_patterns)
                          \/ IsTransparentWordArt(sp, run.proc))
        IN  (~run.proc.preview /\ run.part.form = "slide") =>
                run.after.shapes = SelectSeq(run.part.shapes, kept)

(***************************************************************************)
(* Claims about concurrent PPTX runs.                                      *)
(***************************************************************************)
\* C14: when two PPTX runs on two different input files run at once, in
\* every interleaving no run deletes or repackages a file that the other
\* run extracted.
C14_WorkspaceIsolation ==
    \A e \in racLog : e.owner = e.run

(***************************************************************************)
(* Claims about process_batch.                                             *)
(***************************************************************************)
\* C15: process_batch is never aborted by a file, a file with an
\* unsupported extension included: every file visited so far has exactly
\* one result, in the order of the list, and the list returned has one
\* entry per file.
C15_BatchFailureIsolation ==
    /\ batStatus # "exited"
    /\ Len(batResults) <= Len(batFiles)
    /\ \A i \in 1..Len(batResults) : batResults[i].file = batFiles[i].path
    /\ batStatus = "returned" => Len(batResults) = Len(batFiles)

(***************************************************************************)
(* Claims about the OOXML processors.                                      *)
(***************************************************************************)
OoxmlExts == {".docx", ".xlsx", ".pptx"}

\* the rules the run's processor applies to the part n ("none": no rules)
KindIn(run, n) ==
    CASE run.cls = "WordProcessor" -> WordKind(n, run.mode)
      [] run.cls = "ExcelProcessor" -> ExcelKind(n)
      [] OTHER -> IF n = PresentationXml THEN "presentation" ELSE "none"

\* no removal rule and no shape detector matches in the part
Untouched(run, n, part) ==
    /\ KindIn(run, n) # "none" => PatchPart(KindIn(run, n), part.text).matches = 0
    /\ run.cls = "PPTXProcessor" =>
          \A i \in 1..Len(part.shapes) :
              ~(part.shapes[i].tag = "sp" /\ IsWatermark(part.shapes[i], NoProcessor))

\* the runs over an OOXML archive that returned the path of an archive
Delivered(run) ==
    /\ run.input.ext \in OoxmlExts
    /\ run.before[run.input].kind = "zip"
    /\ run.result.success
    /\ run.result.output_path # NoPath
    /\ run.after[run.result.output_path].kind = "zip"

\* C13: after every call of a PPTX, Word or Excel processor that made an
\* extraction workspace, the workspace is gone: after a success, after a
\* detected failure (an input that is no ZIP container) and after an
\* exception raised while the parts or slides were being processed.
C13_WorkspaceCleanedUp ==
    \A i \in 1..Len(zipRuns) :
        zipRuns[i].workspace # NoPath =>
            zipRuns[i].after[zipRuns[i].workspace] = Missing

\* a PPTX call found a workspace left behind, made its own, met a slide
\* that does not parse at the second callback and returned a failure
C13_Witness ==
    \E i \in 1..Len(zipRuns) :
        /\ zipRuns[i].workspace # NoPath
        /\ zipRuns[i].extracted
        /\ ~zipRuns[i].result.success
        /\ zipRuns[i].cls = "PPTXProcessor"
        /\ zipRuns[i].before[zipRuns[i].workspace].kind = "dir"
        /\ Len(zipRuns[i].callbacks) = 2

\* C16: process() never raises: every call of a PPTX, Word or Excel
\* processor, whatever the directory holds (an unwritable directory or a
\* file in the place of the workspace included), returns a ProcessResult,
\* and a result with success = false carries a message.
C16_ProcessNeverRaises ==
    \A i \in 1..Len(zipRuns) :
        /\ ~zipRuns[i].raised
        /\ ~zipRuns[i].result.success => zipRuns[i].result.message # ""

\* a file, that is a file of the directory with content
IsFile(node) == node.kind \in {"zip", "binary"}

\* C17: whenever an apply call returns success with an output path, a
\* file exists at that path; when the call removed nothing from an OOXML
\* input, that file is a copy of the input.
C17_ZeroArtifactCopy ==
    \A i \in 1..Len(zipRuns) :
        LET run == zipRuns[i]
        IN  (~run.preview /\ run.result.success /\ run.result.output_path # NoPath) =>
                /\ IsFile(run.after[run.result.output_path])
                /\ (run.fresh /\ run.result.removed_count = 0 /\ run.input.ext \in OoxmlExts) =>
                        run.after[run.result.output_path] = run.before[run.input]

\* the suffix a processor appends to the stem of the input
SuffixOf(cls, mode) ==
    CASE cls = "WordProcessor" -> IF mode = "protection" THEN "_unlocked" ELSE "_processed"
      [] cls = "ExcelProcessor" -> "_unlocked"
      [] cls = "PPTXProcessor" -> "_nowm"

\* the output path of a run: the path the caller supplied or, without one,
\* the input path with the processor's suffix before the extension
OutputOf(run) ==
    IF run.output_arg # NoPath THEN run.output_arg
    ELSE DefaultOutput(run.input, SuffixOf(run.cls, run.mode))

\* the extraction workspaces of a run
WorkspacesOf(run) == {TempDirOf(run.input), TempPath}

\* C25: a run creates, changes or deletes nothing but its output path and
\* its own workspace: the input and whatever else was in the directory
\* before the run (a <stem>.docx or <stem>.xlsx beside a legacy input, a
\* directory with the name of the PPTX workspace) are as before.
C25_NoCollateralEffects ==
    \A i \in 1..Len(zipRuns) :
        LET run == zipRuns[i]
        IN  \A p \in DOMAIN run.before :
                (/\ p # OutputOf(run)
                 /\ (p \in WorkspacesOf(run) => run.before[p] # Missing))
                    => run.after[p] = run.before[p]

\* C26: when a Word or Excel call returns success = false, no file is at
\* the output path that was not there before the call.
C26_NoOutputOnFailure ==
    \A i \in 1..Len(zipRuns) :
        LET run == zipRuns[i]
        IN  (/\ run.cls \in {"WordProcessor", "ExcelProcessor"}
             /\ ~run.raised
             /\ ~run.result.success
             /\ run.before[OutputOf(run)] = Missing)
                => run.after[OutputOf(run)] = Missing

\* C27: removed_count and page_count of a ProcessResult count the document
\* of that call only: a second call of the same instance on the same
\* OOXML document reports what the first call reported.
C27_PerCallCounts ==
    \A i \in 2..Len(zipRuns) :
        (/\ ~zipRuns[i].fresh
         /\ zipRuns[i].input.ext \in OoxmlExts
         /\ zipRuns[i].before[zipRuns[i].input] = zipRuns[i - 1].before[zipRuns[i - 1].input]
         /\ zipRuns[i - 1].result.success
         /\ zipRuns[i].result.success)
            => /\ zipRuns[i].result.removed_count = zipRuns[i - 1].result.removed_count
               /\ zipRuns[i].result.page_count = zipRuns[i - 1].result.page_count

\* C18: the output_path of every successful apply call is the path the
\* caller supplied or, without one, the input path with the processor's
\* suffix before the extension, and the container is at that path; .doc
\* and .xls inputs that are converted included.
C18_OutputPath ==
    \A i \in 1..Len(zipRuns) :
        LET run == zipRuns[i]
            expected == IF run.output_arg # NoPath THEN run.output_arg
                        ELSE DefaultOutput(run.input, SuffixOf(run.cls, run.mode))
        IN  (~run.preview /\ run.result.success) =>
                /\ run.result.output_path = expected
                /\ IsFile(run.after[expected])

\* the slide files of the input of a run
SlidesOf(run) == SlideNames(run.before[run.input].parts)

\* the callbacks count 1, 2, ... with the same total, one unit each
CountsUp(cbs, total) ==
    \A k \in 1..Len(cbs) : cbs[k].current = k /\ cbs[k].total = total

C3_UntouchedPartsKept ==
    \A i \in 1..Len(zipRuns) :
        Delivered(zipRuns[i]) =>
            LET doc == zipRuns[i].before[zipRuns[i].input]
                out == zipRuns[i].after[zipRuns[i].result.output_path]
            IN  /\ DOMAIN out.parts = DOMAIN doc.parts
                /\ \A n \in DOMAIN doc.parts :
                       Untouched(zipRuns[i], n, doc.parts[n]) => out.parts[n] = doc.parts[n]

\* a run rewrote one part of the archive and kept a targeted part in which
\* nothing matched
C3_Witness ==
    \E i \in 1..Len(zipRuns) :
        /\ Delivered(zipRuns[i])
        /\ LET doc == zipRuns[i].before[zipRuns[i].input]
               out == zipRuns[i].after[zipRuns[i].result.output_path]
           IN  /\ \E n \in DOMAIN doc.parts : out.parts[n] # doc.parts[n]
               /\ \E n \in DOMAIN doc.parts :
                      /\ KindIn(zipRuns[i], n) # "none" \/ doc.parts[n].form = "slide"
                      /\ Untouched(zipRuns[i], n, doc.parts[n])
                      /\ out.parts[n] = doc.parts[n]

\* C4: a call on a processor constructed with preview=True returns
\* output_path = None and leaves every file of the directory, the input
\* among them, as it was (the workspace path aside).
C4_ScanModeNonMutating ==
    \A i \in 1..Len(zipRuns) :
        zipRuns[i].preview =>
            /\ zipRuns[i].result.output_path = NoPath
            /\ \A p \in DOMAIN zipRuns[i].before \ {TempDirOf(zipRuns[i].input)} :
                   zipRuns[i].after[p] = zipRuns[i].before[p]

\* C9: a call on an input with an OOXML extension that is no ZIP container
\* returns success = false with the encryption message, extracts nothing and
\* creates or changes no file.
C9_EncryptedDetected ==
    \A i \in 1..Len(zipRuns) :
        (/\ zipRuns[i].input.ext \in OoxmlExts
         /\ zipRuns[i].before[zipRuns[i].input].kind = "binary")
            => /\ ~zipRuns[i].raised
               /\ ~zipRuns[i].result.success
               /\ zipRuns[i].result.message = "encrypted"
               /\ zipRuns[i].result.removed_count = 0
               /\ ~zipRuns[i].extracted
               /\ \A p \in DOMAIN zipRuns[i].before \ {TempDirOf(zipRuns[i].input)} :
                      zipRuns[i].after[p] = zipRuns[i].before[p]

\* the integer k of slide<k>.xml
SlideNumber(name) == IntFrom(name, 2, 0)

\* C10: the PPTX processor reports progress for the slides in ascending
\* order of the integer k of slide<k>.xml, each slide once, whatever the
\* order in which the glob yields them.
C10_SlidesInNumericOrder ==
    \A i \in 1..Len(zipRuns) :
        (zipRuns[i].cls = "PPTXProcessor" /\ zipRuns[i].result.success) =>
            LET cbs == zipRuns[i].callbacks
            IN  /\ { cbs[k].name : k \in 1..Len(cbs) }
                      = SlideNames(zipRuns[i].before[zipRuns[i].input].parts)
                /\ Len(cbs) = Len(zipRuns[i].globbed)
                /\ \A k \in 1..Len(cbs) : cbs[k].current = k
                /\ \A j, k \in 1..Len(cbs) :
                       j < k => SlideNumber(cbs[j].name) <= SlideNumber(cbs[k].name)

\* the glob yielded slide10.xml before slide2.xml and the processor visited
\* slide2.xml first
C10_Witness ==
    \E i \in 1..Len(zipRuns) :
        /\ zipRuns[i].cls = "PPTXProcessor"
        /\ zipRuns[i].result.success
        /\ zipRuns[i].globbed = <<SlideXml(<<"1", "0">>), SlideXml(<<"2">>)>>
        /\ Len(zipRuns[i].callbacks) = 2
        /\ zipRuns[i].callbacks[1].name = SlideXml(<<"2">>)
        /\ zipRuns[i].callbacks[2].name = SlideXml(<<"1", "0">>)

(***************************************************************************)
(* Claims about the PDF content-stream detector.                           *)
(***************************************************************************)
\* the text blocks of a stream, as r'(BT\s+.*?ET)' delimits them
RECURSIVE BlocksFrom(_, _)
BlocksFrom(s, pos) ==
    IF pos > Len(s) THEN <<>>
    ELSE IF BlockEnd(s, pos) # 0
         THEN <<SubSeq(s, pos, BlockEnd(s, pos))>> \o BlocksFrom(s, BlockEnd(s, pos) + 1)
         ELSE BlocksFrom(s, pos + 1)

\* a block that matches a watermark criterion: rotation band or a keyword
Matching(block, keywords) ==
    IsRotated(block) \/ \E i \in 1..Len(keywords) : HasKeyword(block, keywords[i])

\* the number of matching blocks of a one-page, one-stream document
MatchingBlocks(doc, keywords) ==
    LET blocks == BlocksFrom(doc.pages[1][1], 1)
    IN  Cardinality({ i \in 1..Len(blocks) : Matching(blocks[i], keywords) })

\* a process() call on a new processor instance that opened a document
FreshRun(i) ==
    /\ i \in 1..Len(pdfRuns)
    /\ pdfRuns[i].fresh
    /\ pdfRuns[i].doc.kind = "pdf"

\* C2: after an apply run has deleted the classified blocks and saved, an
\* apply run with the same configuration on the saved output classifies no
\* block: it reports removed_count = 0.
C2_PdfIdempotent ==
    \A i \in 2..Len(pdfRuns) :
        (/\ FreshRun(i - 1) /\ ~pdfRuns[i - 1].preview
         /\ FreshRun(i) /\ ~pdfRuns[i].preview
         /\ pdfRuns[i].input = pdfRuns[i - 1].result.output_path
         /\ pdfRuns[i].doc = pdfRuns[i - 1].saved)
            => pdfRuns[i].result.removed_count = 0

\* C5: a scan run on a PDF with N matching blocks reports removed_count = N,
\* each block counted once, and an apply run on the same input reports the
\* same count.
C5_ScanCountsEachBlockOnce ==
    \A i \in 1..Len(pdfRuns) :
        (FreshRun(i) /\ pdfRuns[i].preview)
            => /\ pdfRuns[i].result.removed_count = MatchingBlocks(pdfRuns[i].doc, pdfKeywords)
               /\ \A j \in 1..Len(pdfRuns) :
                    (FreshRun(j) /\ ~pdfRuns[j].preview /\ pdfRuns[j].doc = pdfRuns[i].doc)
                        => pdfRuns[j].result.removed_count = pdfRuns[i].result.removed_count

(***************************************************************************)
(* Claims about the GUI shells.                                            *)
(***************************************************************************)
\* the worker threads that are at work on the documents
WorkersAtWork == { w \in 1..Len(guiWorkers) : Working(guiWorkers[w]) }

\* a start request is handled in this step
StartRequested == guiUsed'.requests = guiUsed.requests + 1

\* C23: batches are strictly sequential in both shells: at most one worker
\* is at work at any time, a worker is at work only while the processing
\* flag is set, a worker has begun at most one document that it has not
\* finished, and a start request handled while the flag is
\* set starts no worker.
C23_SequentialBatches ==
    /\ [](/\ Cardinality(WorkersAtWork) <= 1
          /\ WorkersAtWork # {} => guiProcessing
          /\ \A w \in 1..Len(guiWorkers) :
                guiWorkers[w].begun = Len(guiWorkers[w].processed)
                    + (IF guiWorkers[w].pc = "process" THEN 1 ELSE 0))
    /\ [][StartRequested /\ guiProcessing => guiWorkers' = guiWorkers]_vars

\* C23 witness: a second run was started after the first one had ended,
\* and the second worker has processed a document.
C23_Witness ==
    /\ Len(guiWorkers) = 2
    /\ ~Working(guiWorkers[1])
    /\ guiWorkers[2].processed # <<>>

\* C28: in DocumentUnlockerGUI with a fair scheduler, a run that was
\* started comes to its end: the processing flag is reset.
C28_RunCompletes ==
    (guiKind = "DocumentUnlockerGUI" /\ guiProcessing) ~> ~guiProcessing

\* C29: in WatermarkRemoverGUI a worker that has ended has processed the
\* files that were in the list when the run was started, once each and in
\* list order, and no other file.
C29_BatchCoverage ==
    guiKind = "WatermarkRemoverGUI" =>
        \A w \in 1..Len(guiWorkers) :
            guiWorkers[w].pc = "finished" =>
                guiWorkers[w].processed = guiWorkers[w].started_with

\* C30: in WatermarkRemoverGUI the progress values a worker puts on the
\* queue are between 0 and 100 and never decrease within the run.
C30_ProgressRange ==
    guiKind = "WatermarkRemoverGUI" =>
        \A w \in 1..Len(guiWorkers) :
            LET p == guiWorkers[w].progress
            IN  /\ \A k \in 1..Len(p) : 0 <= p[k] /\ p[k] <= Pct(1, 1)
                /\ \A k \in 1..(Len(p) - 1) : p[k] <= p[k + 1]

(***************************************************************************)
(* Claims about the page loop of PDFProcessor.                             *)
(***************************************************************************)
\* the pages and streams of a document
StreamsOf(pages) == { <<n, k>> : n \in 1..Len(pages), k \in 1..MaxStreams } \cap
                    { <<n, k>> \in (1..Len(pages)) \X (1..MaxStreams) : k <= Len(pages[n]) }

\* the number of blocks of a stream an apply run removes
RemovedIn(stream, keywords) == FilterFrom(stream, 1, FALSE, keywords).removed

\* C21: in apply mode a content stream is written back iff a block of
\* that stream was removed; a stream without a removal is not written,
\* also when an earlier stream of its page had removals.
C21_PerStreamRewrite ==
    \A i \in 1..Len(docRuns) :
        ~docRuns[i].preview =>
            \A p \in StreamsOf(docRuns[i].pages) :
                docRuns[i].written[p[1]][p[2]]
                    <=> RemovedIn(docRuns[i].pages[p[1]][p[2]], docRuns[i].keywords) > 0

\* position j of s lies inside a string literal: more "(" than ")" before it
InLiteral(s, j) ==
    Cardinality({ k \in 1..(j - 1) : s[k] = "(" }) > Cardinality({ k \in 1..(j - 1) : s[k] = ")" })

\* the last position of the text object that starts with the BT operator at
\* position i of s: the end of the first ET operator after it that is not
\* part of a string literal (0: no text object starts at i)
ObjectEnd(s, i) ==
    IF ~(StartsAt(s, i, <<"B", "T">>) /\ i + 2 <= Len(s) /\ IsSpace(s[i + 2])) THEN 0
    ELSE LET ends == { j \in (i + 3)..(Len(s) - 1) :
                         /\ s[j] = "E" /\ s[j + 1] = "T"
                         /\ ~InLiteral(s, j) }
         IN  IF ends = {} THEN 0
             ELSE (CHOOSE j \in ends : \A k \in ends : j <= k) + 1

\* s from position pos on without its classified text objects
RECURSIVE WithoutWatermarks(_, _, _)
WithoutWatermarks(s, pos, keywords) ==
    IF pos > Len(s) THEN <<>>
    ELSE IF ObjectEnd(s, pos) = 0
    THEN <<s[pos]>> \o WithoutWatermarks(s, pos + 1, keywords)
    ELSE IF Matching(SubSeq(s, pos, ObjectEnd(s, pos)), keywords)
    THEN WithoutWatermarks(s, ObjectEnd(s, pos) + 1, keywords)
    ELSE SubSeq(s, pos, ObjectEnd(s, pos))
            \o WithoutWatermarks(s, ObjectEnd(s, pos) + 1, keywords)

\* C22: a stream rewritten by an apply run is the input stream without its
\* classified text objects, each deleted from its BT operator to the ET
\* operator that closes it (not to the characters ET inside a string
\* literal); everything else is kept unchanged and in order.
C22_WholeObjectDeletion ==
    \A i \in 1..Len(docRuns) :
        ~docRuns[i].preview =>
            \A p \in StreamsOf(docRuns[i].pages) :
                docRuns[i].written[p[1]][p[2]] =>
                    docRuns[i].after[p[1]][p[2]] =
                        WithoutWatermarks(docRuns[i].pages[p[1]][p[2]], 1, docRuns[i].keywords)

====
